---------------------------- MODULE Spec2Model ----------------------------
(***************************************************************************)
(* A model of the dq-utility-ai services:                                  *)
(*   - the in-memory result cache of the agent service                     *)
(*     (src/ecs/DQ-agent/agent.py),                                        *)
(*   - the task-session store and the background processing of a task      *)
(*     (src/ecs/DQ-agent/app.py, web_app.py, agent.py),                    *)
(*   - the Glue job poller (src/lambdas/poller/poller.py).                 *)
(* Each component has its own next-state relation and specification; the   *)
(* variables of the other components stay as Init leaves them.             *)
(***************************************************************************)
EXTENDS Integers, Sequences, FiniteSets, TLC

(***************************************************************************)
(* Bounds of the model.                                                    *)
(***************************************************************************)
\* number of clock ticks the wall clock of the agent service may make
MaxTicks == 3
\* number of request threads of the agent service that use the cache
NumThreads == 2
\* cap on the number of waits of one polling session (the ceiling ends a session
\* after 7 waits with the interval and ceiling below)
MaxSleeps == 8

(***************************************************************************)
(* Result cache: agent.py.                                                 *)
(***************************************************************************)
\* agent.py:32, CACHE_TTL_HOURS (environment, default 24)
CACHE_TTL_HOURS == 24

\* the wall clock advances in steps of twelve hours, so that an entry's age
\* passes through exactly the TTL (24 h) and then beyond it
TickSeconds == 12 * 3600

Threads == 1..NumThreads

\* user names as the requests carry them; the cache key is the lower-cased name
Usernames == {"alice", "Alice", "bob"}

\* str.lower() on the user names of the model
lower_keep_case(u) == u

lower(u) == IF u = "Alice" THEN "alice" ELSE u

\* the texts a reasoning run may produce for a job result
Results == {"r1", "r2"}

\* datetime.isoformat(): a timestamp string, here the tagged tuple <<"iso", t>>;
\* the empty string is <<>>
isoformat(t) == <<"iso", t>>

\* whether datetime.fromisoformat() accepts the string
IsIsoString(s) == Len(s) = 2 /\ s[1] = "iso"

\* datetime.fromisoformat() of a string it accepts: seconds
fromisoformat(s) == s[2]

\* the result of get_cached_job_results when nothing is cached: ""
EmptyStr == <<>>

\* the job_data dictionary that prompt() stores (agent.py:233-241)
JobResultData(t, r) ==
    [type |-> "completed_glue_job", completion_time |-> isoformat(t), results |-> r]

\* placeholder of a request's local job_data before line 124 assigns it
NoJobData == [type |-> "none", completion_time |-> <<>>, results |-> "none"]

VARIABLES
    \* ---- agent service: result cache ----
    completed_jobs_cache, \* agent.py:29, dict user_key -> job_data
    now,                  \* datetime.utcnow() of the agent service, seconds
    tpc,                  \* per request thread: position in prompt()/get_cached_job_results
    tuser,                \* per request thread: user.name of the request
    tjob,                 \* per request thread: local job_data (agent.py:124)
    tret,                 \* per request thread: value returned by get_cached_job_results
    lastPut,              \* history: per user key, the latest job_data stored and when
    latestPut,            \* history: the most recent put: its username, job_data, and what it replaced
    \* ---- agent service: task store and background processing ----
    task_store,           \* S3 objects tasks/<task_id>/status.json: dict task_id -> record
    bpc,                  \* per task: position of the request / background thread
    bidx,                 \* per task: index of the next progress write inside agent.prompt
    response_text,        \* per task: response_text / error_message of the background thread
    wsurl,                \* per task: kind of websocket_url of the request
    notifications,        \* per task: the notification attempts made (requests.post)
    http_response,        \* what the request that created the task answered to its client
    query_response,       \* web_app.py:309, what the latest GET /task/<task_id> answered
    request,              \* the latest POST /agent request: entry point, async flag, keyword matches
    processing,           \* how that request was processed: "sync" or "async"
    query,                \* the latest GET /task/<task_id>: the task id and the caller
    writeLog,             \* history, per task: the execution contexts that wrote its record, in order,
                          \* successive writes of one context noted once
    \* ---- poller lambda ----
    event,                \* the input event: which fields are usable, reinvoke_on_success
    glue_state,           \* the JobRunState of the watched Glue job run (external)
    pc,                   \* position of handler()
    state,                \* poller.py:54, state
    poll_count,           \* poller.py:58, poll_count
    clock,                \* time.time() - start_time, seconds
    reads,                \* history: outcome of every glue.get_job_run call, in order
    lastReadAt,           \* history: clock when the latest get_job_run was issued
    nSleeps,              \* history: number of time.sleep(POLL_INTERVAL) calls
    progressLog,          \* history: the progress events posted to the agent service
    result_preview,       \* poller.py:119, result_preview
    harvests,             \* history: number of runs of the result harvest
    finalLog,             \* history: the final result events posted to the agent service
    harvestIn,            \* history: what the artifact store answered during the harvest
    harvestDetail,        \* history: the folders listed, the folder read, the parts of the CSV body
                          \* and how many of them the preview holds
    \* ---- notification senders of the agent service ----
    sfn,                  \* the send function that was called
    surl,                 \* the websocket_url that requests.post is given
    max_retries,          \* app.py:319, max_retries
    attempt,              \* app.py:323, loop variable of the retrying send
    spc,                  \* position of the send function
    sret,                 \* its return value
    attempts,             \* history: the answer of every requests.post call, in order
    delays,               \* history: the argument of every time.sleep call, in order
    \* ---- web front end: connection registry ----
    reg_impl,             \* which front end runs: the WebSocket Lambda or the FastAPI app
    connections,          \* websocket_handler.py:16, connection_id -> username or None
    user_connections,     \* websocket_handler.py:17, username -> connection_id
    active_connections,   \* web/app.py:28, session_id -> WebSocket
    user_sessions,        \* web/app.py:30, username -> session_id
    lastBind,             \* history: the channel each username was bound to most recently
    lastSend,             \* history: the latest send to a user, until the registry is used again
    authed,               \* history: the open channels that received an auth message since they were opened
    \* ---- web front end: notify endpoint and chat handler ----
    chat_history_store,   \* web/app.py:152, username -> list of pending messages
    next_msg,             \* history: the id that the next accepted notification gets
    notify_status,        \* the HTTP status of the latest /api/notify call
    cpc,                  \* position of the chat generator
    cuser,                \* web/app.py:296, username of the running chat call
    ctask,                \* web/app.py:387, whether the agent's answer carries a task_id
    cpolls,               \* web/app.py:393, poll_count of the chat call
    citer,                \* position of the for loop of 406-408 in the list it iterates
    history,              \* web/app.py:322, the pending messages appended to the history argument
    chat_out,             \* what the latest yield of the chat call carried
    yielded,              \* history: the pending messages that a yield carried, in order
    cleared,              \* history: the pending messages removed from chat_history_store
    \* ---- agent service: MCP tool sets ----
    shared_mcp_client,    \* mcp_client_manager.py:17, _shared_mcp_client
    shared_mcp_tools,     \* mcp_client_manager.py:18, _shared_mcp_tools
    mcp_tools,            \* mcp_client_manager.py:13, user id -> tool set
    mcp_clients,          \* mcp_client_manager.py:14, user id -> client
    mpc,                  \* per thread: position in get_mcp_tools_for_user
    muser,                \* per thread: the id of the user argument
    mret,                 \* per thread: the value the call returned
    mseen,                \* history, per thread: the shared tool set when the call started
    mafter,               \* history, per thread: the first initialized tool set when the call started
    firstInit             \* history: the tool set of the first successful initialization

cacheVars == <<completed_jobs_cache, now, tpc, tuser, tjob, tret, lastPut, latestPut>>

taskVars == <<task_store, bpc, bidx, response_text, wsurl, notifications,
              http_response, query_response, request, processing, query, writeLog>>

pollerVars == <<event, glue_state, pc, state, poll_count, clock, reads, lastReadAt,
                nSleeps, progressLog, result_preview, harvests, finalLog, harvestIn, harvestDetail>>

sendVars == <<sfn, surl, max_retries, attempt, spc, sret, attempts, delays>>

regVars == <<reg_impl, connections, user_connections, active_connections, user_sessions,
             lastBind, lastSend, authed>>

chatVars == <<chat_history_store, next_msg, notify_status, cpc, cuser, ctask, cpolls, citer,
              history, chat_out, yielded, cleared>>

mcpVars == <<shared_mcp_client, shared_mcp_tools, mcp_tools, mcp_clients, mpc, muser, mret,
             mseen, mafter, firstInit>>

vars == <<cacheVars, taskVars, pollerVars, sendVars, regVars, chatVars, mcpVars>>

(***************************************************************************)
(* dict operations                                                         *)
(***************************************************************************)
DictSet(d, k, v) == [x \in (DOMAIN d) \cup {k} |-> IF x = k THEN v ELSE d[x]]
DictDel(d, k) == [x \in (DOMAIN d) \ {k} |-> d[x]]
EmptyDict == [x \in {} |-> NoJobData]

\* dict.get(key, default)
DictGet(d, k, default) == IF k \in DOMAIN d THEN d[k] ELSE default

\* agent.py:95-112. TRUE iff the entry is expired.
is_cache_entry_expired_strict_ge(job_data, utcnow) ==
    LET completion_time_str == DictGet(job_data, "completion_time", <<>>)
    IN  IF completion_time_str = <<>> THEN TRUE
        ELSE IF ~IsIsoString(completion_time_str) THEN TRUE
        ELSE (utcnow - fromisoformat(completion_time_str)) >= CACHE_TTL_HOURS * 3600

is_cache_entry_expired_keep_undated(job_data, utcnow) ==
    LET completion_time_str == DictGet(job_data, "completion_time", <<>>)
    IN  IF completion_time_str = <<>> THEN FALSE
        ELSE IF ~IsIsoString(completion_time_str) THEN FALSE
        ELSE (utcnow - fromisoformat(completion_time_str)) > CACHE_TTL_HOURS * 3600

is_cache_entry_expired(job_data, utcnow) ==
    LET completion_time_str == DictGet(job_data, "completion_time", <<>>)  \* line 101
    IN  IF completion_time_str = <<>> THEN TRUE                   \* line 102-103
        ELSE IF ~IsIsoString(completion_time_str) THEN TRUE       \* line 105, 110-112
        ELSE (utcnow - fromisoformat(completion_time_str))
                > CACHE_TTL_HOURS * 3600                          \* line 106-109

\* agent.py:134-140, the formatted text returned for a cached entry
FormatCached(job_data) ==
    <<"CACHED JOB RESULTS AVAILABLE",
      DictGet(job_data, "completion_time", "unknown"),
      DictGet(job_data, "results", "No results available")>>

\* history: the username a put was called with, the job_data it stored and the
\* results of the entry it replaced ("none" when the key was free)
PutRecord(cache, u, job_data) ==
    [user |-> u, job_data |-> job_data,
     over |-> IF lower(u) \in DOMAIN cache THEN cache[lower(u)].results ELSE "none"]

NoPut == [user |-> "none", job_data |-> NoJobData, over |-> "none"]

CacheInit ==
    /\ completed_jobs_cache = EmptyDict
    /\ now = 0
    /\ tpc = [t \in Threads |-> "idle"]
    /\ tuser = [t \in Threads |-> "alice"]
    /\ tjob = [t \in Threads |-> NoJobData]
    /\ tret = [t \in Threads |-> EmptyStr]
    /\ lastPut = EmptyDict
    /\ latestPut = NoPut

\* job_data dictionaries as a cache may hold them: without completion_time, with
\* an empty one, with one that fromisoformat() rejects, and as prompt() writes them
EntryForms ==
    { [type |-> "completed_glue_job", results |-> "r1"],
      [type |-> "completed_glue_job", completion_time |-> <<>>, results |-> "r1"],
      [type |-> "completed_glue_job", completion_time |-> <<"not-a-date">>, results |-> "r1"],
      JobResultData(0, "r1") }

\* every cache content over the user keys built from those dictionaries
CacheContents ==
    UNION { [ks -> EntryForms] : ks \in SUBSET {lower(u) : u \in Usernames} }

\* the service with a cache content given from outside
CacheInitEntries ==
    /\ completed_jobs_cache \in CacheContents
    /\ now = 0
    /\ tpc = [t \in Threads |-> "idle"]
    /\ tuser = [t \in Threads |-> "alice"]
    /\ tjob = [t \in Threads |-> NoJobData]
    /\ tret = [t \in Threads |-> EmptyStr]
    /\ lastPut = EmptyDict
    /\ latestPut = NoPut

\* a thread is between two cache operations
AtRest(t) == tpc[t] = "idle"

\* the wall clock of the service advances
Tick ==
    /\ now < MaxTicks * TickSeconds
    /\ now' = now + TickSeconds
    /\ UNCHANGED <<completed_jobs_cache, tpc, tuser, tjob, tret, lastPut, latestPut>>
    /\ UNCHANGED <<taskVars, pollerVars, sendVars, regVars, chatVars, mcpVars>>

\* agent.py:160, 122: a status query of user u calls get_cached_job_results
GetCall(t, u) ==
    /\ AtRest(t)
    /\ tpc' = [tpc EXCEPT ![t] = "get_lookup"]
    /\ tuser' = [tuser EXCEPT ![t] = u]
    /\ tjob' = [tjob EXCEPT ![t] = NoJobData]
    /\ tret' = [tret EXCEPT ![t] = EmptyStr]
    /\ UNCHANGED <<completed_jobs_cache, now, lastPut, latestPut>>

\* agent.py:123, 142-143: `if user_key in _completed_jobs_cache`, else return ""
GetLookup(t) ==
    /\ tpc[t] = "get_lookup"
    /\ IF lower(tuser[t]) \in DOMAIN completed_jobs_cache
       THEN tpc' = [tpc EXCEPT ![t] = "get_load"]
       ELSE tpc' = [tpc EXCEPT ![t] = "returned"]
    /\ UNCHANGED <<completed_jobs_cache, now, tuser, tjob, tret, lastPut, latestPut>>

\* agent.py:124: job_data = _completed_jobs_cache[user_key]  (KeyError when gone)
GetLoad(t) ==
    /\ tpc[t] = "get_load"
    /\ IF lower(tuser[t]) \in DOMAIN completed_jobs_cache
       THEN /\ tjob' = [tjob EXCEPT ![t] = completed_jobs_cache[lower(tuser[t])]]
            /\ tpc' = [tpc EXCEPT ![t] = "get_check"]
       ELSE /\ tpc' = [tpc EXCEPT ![t] = "raised"]
            /\ UNCHANGED tjob
    /\ UNCHANGED <<completed_jobs_cache, now, tuser, tret, lastPut, latestPut>>

\* agent.py:127, 132-140: the expiry check on the local job_data
GetCheck(t) ==
    /\ tpc[t] = "get_check"
    /\ IF is_cache_entry_expired(tjob[t], now)
       THEN /\ tpc' = [tpc EXCEPT ![t] = "get_del"]
            /\ UNCHANGED tret
       ELSE /\ tpc' = [tpc EXCEPT ![t] = "returned"]
            /\ tret' = [tret EXCEPT ![t] = FormatCached(tjob[t])]
    /\ UNCHANGED <<completed_jobs_cache, now, tuser, tjob, lastPut, latestPut>>

\* agent.py:128-130: del _completed_jobs_cache[user_key]; return ""
GetDel(t) ==
    /\ tpc[t] = "get_del"
    /\ IF lower(tuser[t]) \in DOMAIN completed_jobs_cache
       THEN /\ completed_jobs_cache' = DictDel(completed_jobs_cache, lower(tuser[t]))
            /\ tpc' = [tpc EXCEPT ![t] = "returned"]
            /\ tret' = [tret EXCEPT ![t] = EmptyStr]
       ELSE /\ tpc' = [tpc EXCEPT ![t] = "raised"]       \* KeyError
            /\ UNCHANGED <<completed_jobs_cache, tret>>
    /\ UNCHANGED <<now, tuser, tjob, lastPut, latestPut>>

\* agent.py:233-244: prompt() stores the result of a finished job of user u
CachePut(t, u, r) ==
    /\ AtRest(t)
    /\ completed_jobs_cache' = DictSet(completed_jobs_cache, lower(u), JobResultData(now, r))
    /\ lastPut' = DictSet(lastPut, lower(u), JobResultData(now, r))
    /\ latestPut' = PutRecord(completed_jobs_cache, u, JobResultData(now, r))
    /\ UNCHANGED <<now, tpc, tuser, tjob, tret>>

\* the request that called get_cached_job_results ends; its locals are dropped
GetFinish(t) ==
    /\ tpc[t] \in {"returned", "raised"}
    /\ tpc' = [tpc EXCEPT ![t] = "idle"]
    /\ tuser' = [tuser EXCEPT ![t] = "alice"]
    /\ tjob' = [tjob EXCEPT ![t] = NoJobData]
    /\ tret' = [tret EXCEPT ![t] = EmptyStr]
    /\ UNCHANGED <<completed_jobs_cache, now, lastPut, latestPut>>

\* app.py:172, 181, agent.py:250: the callers discard the value the send returns
\* and go on (done) whether or not the user was notified; they never go back
\* (again) to the write that preceded the send
OnSendResult_repeat(sent, done, again) == IF sent THEN done ELSE again

OnSendResult(sent, done, again) == done

\* agent.py:226-244: prompt() called with a glue_job_result event and a
\* websocket_url stores the result of user u in the cache, then goes on to notify
GlueResultStore(t, u, r) ==
    /\ AtRest(t)
    /\ completed_jobs_cache' = DictSet(completed_jobs_cache, lower(u), JobResultData(now, r))
    /\ lastPut' = DictSet(lastPut, lower(u), JobResultData(now, r))
    /\ latestPut' = PutRecord(completed_jobs_cache, u, JobResultData(now, r))
    /\ tpc' = [tpc EXCEPT ![t] = "glue_notify"]
    /\ UNCHANGED <<now, tuser, tjob, tret>>

\* agent.py:250-260: send_websocket_notification (agent.py:65-93) answers sent;
\* the value is discarded and prompt() returns response_text
GlueResultNotify(t, sent) ==
    /\ tpc[t] = "glue_notify"
    /\ tpc' = [tpc EXCEPT ![t] = OnSendResult(sent, "idle", "glue_notify")]
    /\ UNCHANGED <<completed_jobs_cache, now, tuser, tjob, tret, lastPut, latestPut>>

\* agent.py:226, 257-260 (called from web_app.py:358, app.py:495): prompt() gets a
\* glue_job_result event of user u without websocket_url; the block that stores
\* the result and notifies is skipped and prompt() returns response_text r
GlueResultNoChannel(t, u, r) ==
    /\ AtRest(t)
    /\ tpc' = [tpc EXCEPT ![t] = "glue_done"]
    /\ tuser' = [tuser EXCEPT ![t] = u]
    /\ tret' = [tret EXCEPT ![t] = r]
    /\ UNCHANGED <<completed_jobs_cache, now, tjob, lastPut, latestPut>>

\* the request that delivered the glue result ends
GlueResultReturn(t) ==
    /\ tpc[t] = "glue_done"
    /\ tpc' = [tpc EXCEPT ![t] = "idle"]
    /\ tuser' = [tuser EXCEPT ![t] = "alice"]
    /\ tret' = [tret EXCEPT ![t] = EmptyStr]
    /\ UNCHANGED <<completed_jobs_cache, now, tjob, lastPut, latestPut>>

(***************************************************************************)
(* Task store and background processing: app.py, web_app.py, agent.py.     *)
(***************************************************************************)
\* task ids (uuid4 strings) of the asynchronous requests of the model; tasks share
\* no state (each has its own record and its own background thread), so one is
\* followed through all its interleavings with the clock and the store
TaskIds == {"task-1", "task-2"}

\* the task that the specifications of a single request follow
OneTask == {"task-1"}

TerminalStatus == {"COMPLETED", "FAILED"}

\* the progress messages written from inside agent.prompt, in program order
\* (agent.py:167, 179, 194, 200, 216, 223)
PromptMessages ==
    <<"Setting up agent session...", "Processing your request...",
      "Initializing data tools and connections...",
      "Creating fresh AI agent with your tools...",
      "AI agent is analyzing your request and generating response...",
      "Finalizing response...">>

\* the progress write after which the reasoning engine runs (agent.py:216-218)
EngineAfter == 5

\* kinds of websocket_url a request may carry: none, a localhost URL, a remote URL
UrlKinds == {"none", "localhost", "remote"}

\* outcomes of a call to the object store
StoreOutcomes == {"ok", "error"}

\* app.py:33-41, the record written by create_task_session (no updated_at key yet)
NewSession(task, user, prompt) ==
    [task_id |-> task, user_id |-> user.id, username |-> user.name, prompt |-> prompt,
     status |-> "STARTED", created_at |-> isoformat(now),
     progress |-> "Initializing agent reasoning...", updated_at |-> <<>>]

\* app.py:68-72 / agent.py:48-52: session_data.update({status, progress, updated_at})
Updated_resets_created_at(session_data, status, message) ==
    [session_data EXCEPT !.status = status, !.progress = message,
                         !.created_at = isoformat(now), !.updated_at = isoformat(now)]

Updated_marks_repeat(session_data, status, message) ==
    [session_data EXCEPT !.status = status,
                         !.progress = IF @ = message THEN "(repeated)" ELSE message,
                         !.updated_at = isoformat(now)]

Updated(session_data, status, message) ==
    [session_data EXCEPT !.status = status, !.progress = message,
                         !.updated_at = isoformat(now)]

\* app.py:57-83 and agent.py:34-63: read-modify-write of the task record; every
\* exception (a failed get_object or put_object, a missing record) is logged and
\* swallowed, leaving the stored record as it was
update_task_progress(store, task, status, message, outcome) ==
    IF outcome = "ok" /\ task \in DOMAIN store
    THEN [store EXCEPT ![task] = Updated(store[task], status, message)]
    ELSE store

\* history: context c wrote next
Noted(seq, c) == IF seq # <<>> /\ seq[Len(seq)] = c THEN seq ELSE Append(seq, c)

\* history of update_task_progress: the background thread of the task has
\* written the record when put_object was reached and succeeded
LogWrite(log, store, task, outcome) ==
    IF outcome = "ok" /\ task \in DOMAIN store
    THEN [log EXCEPT ![task] = Noted(@, "background")]
    ELSE log

\* app.py:251-254 (web_app.py:246-254): the thread is started by the statement
\* that follows the return of create_task_session
ThreadStartable_early(p) == p \in {"none", "created"}

ThreadStartable(p) == p = "created"

\* app.py:97-114: requests.post sits in try/except Exception, so a transport
\* error never leaves send_websocket_notification
SendSwallowsTransportError_off == FALSE

SendSwallowsTransportError == TRUE

\* the authenticated users (JWT claims sub and username: app.py:187-188)
Users == {[id |-> "u1", name |-> "alice"], [id |-> "u2", name |-> "bob"]}

\* app.py:246-248: the composite prompt of the request
Prompt == "User prompt: count of records"

\* no response yet
NoResponse == [statusCode |-> 0, body |-> "-"]

\* app.py:257-265 (web_app.py:256-262): the answer of an accepted asynchronous request
StartedResponse(task) == [statusCode |-> 200, body |-> [task_id |-> task, status |-> "STARTED"]]

\* app.py:266-271; web_app.py:325-334: an error answer
ErrorResponse(code) == [statusCode |-> code, body |-> "error"]

\* app.py:52-55, 251: create_task_session re-raises a failed put_object, which
\* takes handle_user_request_async to its except clause (266); otherwise the
\* request goes on to invoke_agent_async
AfterCreate_swallow(outcome) == "created"

AfterCreate(outcome) == IF outcome = "ok" THEN "created" ELSE "aborted"

\* the two request entry points of the agent service
EntryPoints == {"handle_user_request_async", "process_agent_request"}

\* a POST /agent request as the classification sees it: the "async" field of the
\* body, and for the text whether it contains an entry of
\* data_processing_keywords, schema_keywords, simple_keywords (app.py:199-217),
\* whether it has at most 30 characters, contains an entry of data_keywords and
\* fits an entry of simple_patterns (web_app.py:179-195)
Requests ==
    [use_async : BOOLEAN, data_processing : BOOLEAN, schema : BOOLEAN, simple : BOOLEAN,
     short : BOOLEAN, data_keyword : BOOLEAN, pattern : BOOLEAN]

NoRequest == [entry |-> "none"]

\* app.py:220-227
likely_needs_glue(req) ==
    IF req.schema \/ req.simple THEN FALSE ELSE req.data_processing

\* app.py:196, 236-243: asynchronous iff use_async or likely_needs_glue
handle_user_request_async(req) ==
    IF req.use_async \/ likely_needs_glue(req) THEN "async" ELSE "sync"

\* web_app.py:174-197
is_simple_message(req) ==
    IF req.short /\ ~req.data_keyword THEN TRUE
    ELSE req.pattern

\* web_app.py:230-262
process_agent_request(req) ==
    IF is_simple_message(req) THEN "sync" ELSE "async"

\* who calls GET /task/<task_id>: the user id of a valid token, or a request
\* whose Authorization header get_user_from_token rejects
Callers == {u.id : u \in Users} \cup {"invalid-token"}

NoQuery == [task_id |-> "none", caller |-> "none"]

\* web_app.py:322: session_data.get("user_id") != user.id denies the access
OwnsTask_anyone(session_data, user_id) == TRUE

OwnsTask(session_data, user_id) == session_data.user_id = user_id

\* web_app.py:307-334: the answer of get_task_status
get_task_status(store, task, caller, outcome) ==
    IF caller = "invalid-token" THEN ErrorResponse(401)            \* line 312, 327-328
    ELSE IF task \notin DOMAIN store THEN
            IF outcome = "ok" THEN ErrorResponse(404)              \* line 329-330
            ELSE ErrorResponse(500)                                \* line 331-333
    ELSE IF outcome # "ok" THEN ErrorResponse(500)                 \* line 331-333
    ELSE IF ~OwnsTask(store[task], caller) THEN ErrorResponse(403) \* line 322-323
    ELSE [statusCode |-> 200, body |-> store[task]]                \* line 325

TaskInit ==
    /\ task_store = EmptyDict
    /\ bpc = [k \in TaskIds |-> "none"]
    /\ bidx = [k \in TaskIds |-> 0]
    /\ response_text = [k \in TaskIds |-> ""]
    /\ wsurl = [k \in TaskIds |-> "none"]
    /\ notifications = [k \in TaskIds |-> <<>>]
    /\ http_response = [k \in TaskIds |-> NoResponse]
    /\ query_response = NoResponse
    /\ request = NoRequest
    /\ processing = "none"
    /\ query = NoQuery
    /\ writeLog = [k \in TaskIds |-> <<>>]

\* app.py:250-251 -> 30-55 (web_app.py:246 -> 60-84): create_task_session; a failed
\* put_object is re-raised and the request answers with an error
CreateTask(task, user, url, outcome) ==
    /\ bpc[task] = "none"
    /\ wsurl' = [wsurl EXCEPT ![task] = url]
    /\ bpc' = [bpc EXCEPT ![task] = AfterCreate(outcome)]
    /\ IF outcome = "ok"
       THEN /\ task_store' = DictSet(task_store, task, NewSession(task, user, Prompt))
            /\ writeLog' = [writeLog EXCEPT ![task] = Noted(@, "request")]
            /\ UNCHANGED http_response
       ELSE /\ http_response' = [http_response EXCEPT ![task] =
                                    IF AfterCreate(outcome) = "aborted"
                                    THEN ErrorResponse(500) ELSE @]   \* app.py:266-271
            /\ UNCHANGED <<task_store, writeLog>>
    /\ UNCHANGED <<bidx, response_text, notifications, query_response, request, processing, query>>

\* app.py:254 -> 116-146 (web_app.py:249-254): the background thread is started
StartBackground(task) ==
    /\ ThreadStartable(bpc[task])
    /\ bpc' = [bpc EXCEPT ![task] = "bg_start"]
    /\ http_response' = [http_response EXCEPT ![task] = StartedResponse(task)]
    /\ UNCHANGED <<task_store, bidx, response_text, wsurl, notifications, query_response,
                   request, processing, query, writeLog>>

\* app.py:159 (web_app.py:145): update_task_progress(task_id, "PROCESSING", ...)
UpdateProcessing(task, outcome) ==
    /\ bpc[task] = "bg_start"
    /\ task_store' = update_task_progress(task_store, task, "PROCESSING",
                                          "Agent is analyzing your request...", outcome)
    /\ bpc' = [bpc EXCEPT ![task] = "prompt_enter"]
    /\ UNCHANGED <<bidx, response_text, wsurl, notifications>>
    /\ UNCHANGED <<http_response, query_response, request, processing, query>>
    /\ writeLog' = LogWrite(writeLog, task_store, task, outcome)

\* agent.py:153-163: the part of prompt() before its try block; an exception here
\* (get_cached_job_results raising KeyError) leaves prompt() and reaches the
\* except clause of the background processing (app.py:177)
PromptEnter(task, raises) ==
    /\ bpc[task] = "prompt_enter"
    /\ IF raises
       THEN /\ bpc' = [bpc EXCEPT ![task] = "failing"]
            /\ response_text' = [response_text EXCEPT ![task] = "Processing failed: KeyError"]
            /\ UNCHANGED bidx
       ELSE /\ bpc' = [bpc EXCEPT ![task] = "prompt_progress"]
            /\ bidx' = [bidx EXCEPT ![task] = 1]
            /\ UNCHANGED response_text
    /\ UNCHANGED <<task_store, wsurl, notifications>>
    /\ UNCHANGED <<http_response, query_response, request, processing, query>>
    /\ UNCHANGED writeLog

\* agent.py:167, 179, 194, 200, 216, 223: update_task_progress_from_agent
AgentProgress(task, outcome) ==
    /\ bpc[task] = "prompt_progress"
    /\ task_store' = update_task_progress(task_store, task, "PROCESSING",
                                          PromptMessages[bidx[task]], outcome)
    /\ IF bidx[task] = EngineAfter
       THEN bpc' = [bpc EXCEPT ![task] = "engine"]
       ELSE IF bidx[task] = Len(PromptMessages)
            THEN bpc' = [bpc EXCEPT ![task] = "bg_complete"]      \* line 260: return
            ELSE UNCHANGED bpc
    /\ bidx' = [bidx EXCEPT ![task] = IF bidx[task] < Len(PromptMessages)
                                      THEN bidx[task] + 1 ELSE 0]
    /\ UNCHANGED <<response_text, wsurl, notifications>>
    /\ UNCHANGED <<http_response, query_response, request, processing, query>>
    /\ writeLog' = LogWrite(writeLog, task_store, task, outcome)

\* agent.py:218-221: the reasoning engine answers
EngineRun(task) ==
    /\ bpc[task] = "engine"
    /\ response_text' = [response_text EXCEPT ![task] = "answer"]
    /\ bpc' = [bpc EXCEPT ![task] = "prompt_progress"]
    /\ UNCHANGED <<task_store, bidx, wsurl, notifications>>
    /\ UNCHANGED <<http_response, query_response, request, processing, query>>
    /\ UNCHANGED writeLog

\* agent.py:262-265: an exception inside the try block of prompt() (session
\* manager, tools, agent creation, engine) is caught and returned as text
PromptFail(task) ==
    /\ bpc[task] \in {"prompt_progress", "engine"}
    /\ bidx[task] <= Len(PromptMessages)
    /\ response_text' = [response_text EXCEPT ![task] = "Failed to process request: e"]
    /\ bpc' = [bpc EXCEPT ![task] = "bg_complete"]
    /\ bidx' = [bidx EXCEPT ![task] = 0]
    /\ UNCHANGED <<task_store, wsurl, notifications>>
    /\ UNCHANGED <<http_response, query_response, request, processing, query>>
    /\ UNCHANGED writeLog

\* app.py:169 (web_app.py:151): update_task_progress(task_id, "COMPLETED", response_text)
UpdateCompleted(task, outcome) ==
    /\ bpc[task] = "bg_complete"
    /\ task_store' = update_task_progress(task_store, task, "COMPLETED",
                                          response_text[task], outcome)
    /\ bpc' = [bpc EXCEPT ![task] = "notify_ok"]
    /\ UNCHANGED <<bidx, response_text, wsurl, notifications>>
    /\ UNCHANGED <<http_response, query_response, request, processing, query>>
    /\ writeLog' = LogWrite(writeLog, task_store, task, outcome)

\* app.py:180 (web_app.py:161): update_task_progress(task_id, "FAILED", error_message)
UpdateFailed(task, outcome) ==
    /\ bpc[task] = "failing"
    /\ task_store' = update_task_progress(task_store, task, "FAILED",
                                          response_text[task], outcome)
    /\ bpc' = [bpc EXCEPT ![task] = "notify_err"]
    /\ UNCHANGED <<bidx, response_text, wsurl, notifications>>
    /\ UNCHANGED <<http_response, query_response, request, processing, query>>
    /\ writeLog' = LogWrite(writeLog, task_store, task, outcome)

\* app.py:85-114: the value send_websocket_notification returns for a URL of
\* kind url when the request, if one is made, is answered with ack
SendReturns(url, ack) ==
    IF url = "none" THEN FALSE
    ELSE IF url = "localhost" THEN TRUE
    ELSE ack = "200"

\* app.py:172, 181 -> 85-114 (web_app.py:154, 162 -> 111-139):
\* send_websocket_notification; no request is made without a URL or to localhost
Notify(task, ack) ==
    /\ bpc[task] \in {"notify_ok", "notify_err"}
    /\ IF wsurl[task] = "remote"
       THEN notifications' = [notifications EXCEPT ![task] =
                                 Append(@, [message |-> response_text[task], ack |-> ack])]
       ELSE /\ ack = "200"
            /\ UNCHANGED notifications
    /\ IF /\ ~SendSwallowsTransportError
          /\ wsurl[task] = "remote" /\ ack = "exception" /\ bpc[task] = "notify_ok"
       THEN /\ bpc' = [bpc EXCEPT ![task] = "failing"]
            /\ response_text' = [response_text EXCEPT ![task] = "Processing failed: transport"]
       ELSE /\ bpc' = [bpc EXCEPT ![task] =
                        OnSendResult(SendReturns(wsurl[task], ack), "bg_done",
                                     IF bpc[task] = "notify_ok" THEN "bg_complete"
                                                                ELSE "failing")]
            /\ UNCHANGED response_text
    /\ UNCHANGED <<task_store, bidx, wsurl>>
    /\ UNCHANGED <<http_response, query_response, request, processing, query>>
    /\ UNCHANGED writeLog

\* app.py:184-243, web_app.py:200-262: a request arrives at an entry point and is
\* classified
Classify(entry, req) ==
    /\ request' = [entry |-> entry, body |-> req]
    /\ processing' = IF entry = "handle_user_request_async"
                     THEN handle_user_request_async(req)
                     ELSE process_agent_request(req)
    /\ UNCHANGED <<task_store, bpc, bidx, response_text, wsurl, notifications,
                   http_response, query_response, query, writeLog>>

\* web_app.py:307-334: GET /task/<task_id>
GetTaskStatus(task, caller, outcome) ==
    /\ query' = [task_id |-> task, caller |-> caller]
    /\ query_response' = get_task_status(task_store, task, caller, outcome)
    /\ UNCHANGED <<task_store, bpc, bidx, response_text, wsurl, notifications,
                   http_response, request, processing, writeLog>>

\* acknowledgements of the channel endpoint: HTTP 200, another status, an exception
Acks == {"200", "500", "exception"}

NextTask ==
    \/ Tick
    \/ \E task \in OneTask, user \in Users, url \in UrlKinds, o \in StoreOutcomes :
            CreateTask(task, user, url, o) /\ UNCHANGED <<cacheVars, pollerVars, sendVars, regVars, chatVars, mcpVars>>
    \/ \E task \in OneTask : StartBackground(task) /\ UNCHANGED <<cacheVars, pollerVars, sendVars, regVars, chatVars, mcpVars>>
    \/ \E task \in OneTask, o \in StoreOutcomes :
            UpdateProcessing(task, o) /\ UNCHANGED <<cacheVars, pollerVars, sendVars, regVars, chatVars, mcpVars>>
    \/ \E task \in OneTask, raises \in BOOLEAN :
            PromptEnter(task, raises) /\ UNCHANGED <<cacheVars, pollerVars, sendVars, regVars, chatVars, mcpVars>>
    \/ \E task \in OneTask, o \in StoreOutcomes :
            AgentProgress(task, o) /\ UNCHANGED <<cacheVars, pollerVars, sendVars, regVars, chatVars, mcpVars>>
    \/ \E task \in OneTask : EngineRun(task) /\ UNCHANGED <<cacheVars, pollerVars, sendVars, regVars, chatVars, mcpVars>>
    \/ \E task \in OneTask : PromptFail(task) /\ UNCHANGED <<cacheVars, pollerVars, sendVars, regVars, chatVars, mcpVars>>
    \/ \E task \in OneTask, o \in StoreOutcomes :
            UpdateCompleted(task, o) /\ UNCHANGED <<cacheVars, pollerVars, sendVars, regVars, chatVars, mcpVars>>
    \/ \E task \in OneTask, o \in StoreOutcomes :
            UpdateFailed(task, o) /\ UNCHANGED <<cacheVars, pollerVars, sendVars, regVars, chatVars, mcpVars>>
    \/ \E task \in OneTask, ack \in Acks : Notify(task, ack) /\ UNCHANGED <<cacheVars, pollerVars, sendVars, regVars, chatVars, mcpVars>>

(***************************************************************************)
(* Poller lambda: poller.py.                                               *)
(***************************************************************************)
\* poller.py:15, POLL_INTERVAL (environment POLL_INTERVAL_SECONDS; one hour here,
\* so that the six-hour ceiling is passed after seven waits)
POLL_INTERVAL == 3600

\* poller.py:16, MAX_POLL_HOURS (environment, default 6)
MAX_POLL_HOURS == 6

\* the run states of the external job that the poller distinguishes
RunStates == {"RUNNING", "SUCCEEDED", "FAILED", "STOPPED", "TIMEOUT"}

\* poller.py:101
IsTerminal_succeeded_only(s) == s = "SUCCEEDED"

IsTerminal(s) == s \in {"SUCCEEDED", "FAILED", "STOPPED", "TIMEOUT"}

\* poller.py:108-109: elapsed_hours > MAX_POLL_HOURS
CeilingExceeded_never(elapsed) == FALSE

CeilingExceeded(elapsed) == elapsed > MAX_POLL_HOURS * 3600

\* poller.py:111: the state forced when the ceiling is exceeded
ForcedState_stopped == "STOPPED"

ForcedState == "TIMEOUT"

\* poller.py:69: reinvoke and poll_count % 3 == 0
ProgressDue_every_second(reinvoke, n) == reinvoke /\ n % 2 = 0

ProgressDue(reinvoke, n) == reinvoke /\ n % 3 = 0

\* poller.py:93-99: a non-200 answer and an exception of the progress POST are
\* both logged; control continues at line 101
AfterProgress_raises(ack) == IF ack = "exception" THEN "crashed" ELSE "term_check"

AfterProgress(ack) == "term_check"

\* outcomes of glue.get_job_run: a response, a botocore ClientError (service
\* error response), another exception (connection or read failure)
ReadOutcomes == {"response", "ClientError", "ConnectionError"}

\* poller.py:122: the harvest block runs for a SUCCEEDED final state only
ShouldHarvest_any_terminal(s) == s \in {"SUCCEEDED", "FAILED", "STOPPED"}

ShouldHarvest(s) == s = "SUCCEEDED"

\* what the artifact store answers during a harvest:
\*   list    - s3.list_objects_v2 of the session prefix (134-138): timestamp
\*             folders, a response without CommonPrefixes, an empty
\*             CommonPrefixes list, or an exception;
\*   summary - reading <latest>/summary.json (153-166): a well-formed first line,
\*             only blank lines, get_object raising, json.loads (or .get on a
\*             non-object) raising at 160-161, or ', '.join raising at 164 on a
\*             "columns" value that is not a list of strings;
\*   csv     - the fallback (177-191): a first object read, no Contents, the
\*             listing raising, or get_object/decode raising.
\* "-" marks a step that is not reached.
HarvestInputs ==
    [list : {"none", "empty", "error"}, summary : {"-"}, csv : {"-"}]
        \cup [list : {"folders"}, summary : {"ok", "blank"}, csv : {"-"}]
        \cup [list : {"folders"},
              summary : {"get_error", "parse_error", "columns_error"},
              csv : {"ok", "none", "list_error", "get_error"}]

\* no harvest was made
NoHarvest == [list |-> "-", summary |-> "-", csv |-> "-"]

\* poller.py:119-205: the value of result_preview after the harvest block.
\* result_preview is assigned at 161-163 before line 164 can raise, and only a
\* successful CSV read (190) assigns it again.
HarvestPreview(h) ==
    IF h.list # "folders" THEN "None"
    ELSE IF h.summary = "ok" THEN "summary"
    ELSE IF h.summary = "blank" THEN "None"
    ELSE IF h.csv = "ok" THEN "csv"
    ELSE IF h.summary = "columns_error" THEN "summary_partial"
    ELSE "None"

\* most timestamp folders under a session prefix, and most parts that
\* csv_body.split('\n') yields
MaxFolders == 3
MaxCsvLines == 7

\* timestamp folder names, as numbers: the names are formatted so that their
\* order as strings is the order of the timestamps
FolderNames == 1..MaxFolders

\* poller.py:142-146: timestamp_folders.sort(reverse=True); latest_folder =
\* timestamp_folders[0]
Latest_oldest(folders) == CHOOSE f \in folders : \A g \in folders : f <= g

Latest(folders) == CHOOSE f \in folders : \A g \in folders : g <= f

\* poller.py:189: csv_body.split('\n')[:5]
CSV_PREVIEW_LINES == 5

PreviewLines(n) == IF n < CSV_PREVIEW_LINES THEN n ELSE CSV_PREVIEW_LINES

NoDetail == [listed |-> {}, latest |-> 0, csv_lines |-> 0, preview_lines |-> 0]

\* the folders and CSV size that go with a harvest input in a polling session
\* that is followed for its polling
SomeFolders(h) == IF h.list = "folders" THEN {1, 2} ELSE {}
SomeCsvLines(h) == IF h.csv = "ok" THEN 6 ELSE 0

PollerInit ==
    /\ event = [bucket |-> TRUE, ids |-> TRUE, reinvoke |-> TRUE]
    /\ glue_state = "RUNNING"
    /\ pc = "start"
    /\ state = "RUNNING"
    /\ poll_count = 0
    /\ clock = 0
    /\ reads = <<>>
    /\ lastReadAt = 0
    /\ nSleeps = 0
    /\ progressLog = <<>>
    /\ result_preview = "None"
    /\ harvests = 0
    /\ finalLog = <<>>
    /\ harvestIn = NoHarvest
    /\ harvestDetail = NoDetail

\* the watched job run reaches a terminal state (external to the poller)
GlueFinish(s) ==
    /\ glue_state = "RUNNING"
    /\ s \in RunStates \ {"RUNNING"}
    /\ glue_state' = s
    /\ UNCHANGED <<event, pc, state, poll_count, clock, reads, lastReadAt, nSleeps,
                   progressLog, result_preview, harvests, finalLog, harvestIn, harvestDetail>>

\* the inputs of an invocation: whether BUCKETNAME is configured, whether the
\* event carries job_name and run_id, and its reinvoke_on_success flag
Events == [bucket : BOOLEAN, ids : BOOLEAN, reinvoke : BOOLEAN]

\* poller.py:33-58: the handler is invoked with event e; input validation,
\* state = "RUNNING", start_time, poll_count = 0
PollerStart(e) ==
    /\ pc = "start"
    /\ event' = e
    /\ IF e.bucket /\ e.ids THEN pc' = "poll" ELSE pc' = "error"
    /\ UNCHANGED <<glue_state, state, poll_count, clock, reads, lastReadAt,
                   nSleeps, progressLog, result_preview, harvests, finalLog, harvestIn, harvestDetail>>

\* poller.py:69-102: after a read the progress block comes first when it is due,
\* whatever state s was read; the terminal check follows it
AfterRead_checks_first(due, s) ==
    IF due /\ ~IsTerminal(s) THEN "progress" ELSE "term_check"

AfterRead(due, s) == IF due THEN "progress" ELSE "term_check"

\* poller.py:63: poll_count += 1
NextPollCount_restarts(n) == IF n >= 3 THEN 1 ELSE n + 1

NextPollCount(n) == n + 1

\* poller.py:60-69, 104-105: one read of the external run state
Poll(outcome) ==
    /\ pc = "poll"
    /\ lastReadAt' = clock
    /\ IF outcome = "response"
       THEN /\ state' = glue_state
            /\ poll_count' = NextPollCount(poll_count)
            /\ reads' = Append(reads, glue_state)
            /\ pc' = AfterRead(ProgressDue(event.reinvoke, NextPollCount(poll_count)),
                               glue_state)
       ELSE IF outcome = "ClientError"
       THEN /\ reads' = Append(reads, "ClientError")
            /\ pc' = "timeout_check"
            /\ UNCHANGED <<state, poll_count>>
       ELSE /\ reads' = Append(reads, "ConnectionError")   \* not caught: handler raises
            /\ pc' = "crashed"
            /\ UNCHANGED <<state, poll_count>>
    /\ UNCHANGED <<event, glue_state, clock, nSleeps, progressLog, result_preview,
                   harvests, finalLog, harvestIn, harvestDetail>>

\* poller.py:70-99: the progress event is posted to the agent service
Progress(ack) ==
    /\ pc = "progress"
    /\ progressLog' = Append(progressLog,
                             [poll |-> poll_count, status |-> state, ack |-> ack])
    /\ pc' = AfterProgress(ack)
    /\ UNCHANGED <<event, glue_state, state, poll_count, clock, reads, lastReadAt,
                   nSleeps, result_preview, harvests, finalLog, harvestIn, harvestDetail>>

\* poller.py:101-102
TermCheck ==
    /\ pc = "term_check"
    /\ pc' = IF IsTerminal(state) THEN "harvest" ELSE "timeout_check"
    /\ UNCHANGED <<event, glue_state, state, poll_count, clock, reads, lastReadAt,
                   nSleeps, progressLog, result_preview, harvests, finalLog, harvestIn, harvestDetail>>

\* poller.py:107-112
TimeoutCheck ==
    /\ pc = "timeout_check"
    /\ IF CeilingExceeded(clock)
       THEN state' = ForcedState /\ pc' = "harvest"
       ELSE pc' = "sleep" /\ UNCHANGED state
    /\ UNCHANGED <<event, glue_state, poll_count, clock, reads, lastReadAt, nSleeps,
                   progressLog, result_preview, harvests, finalLog, harvestIn, harvestDetail>>

\* poller.py:114
Sleep ==
    /\ pc = "sleep"
    /\ nSleeps < MaxSleeps
    /\ clock' = clock + POLL_INTERVAL
    /\ nSleeps' = nSleeps + 1
    /\ pc' = "poll"
    /\ UNCHANGED <<event, glue_state, state, poll_count, reads, lastReadAt,
                   progressLog, result_preview, harvests, finalLog, harvestIn, harvestDetail>>

\* poller.py:118-205: the result preview is fetched for a SUCCEEDED run only
\* (line 122); every exception of the block is caught and logged (170, 197, 204)
Harvest(h, folders, csv_lines) ==
    /\ pc = "harvest"
    /\ IF ShouldHarvest(state)
       THEN /\ h \in HarvestInputs
            /\ (h.list = "folders") = (folders # {})     \* line 140, 145
            /\ (h.csv = "ok") = (csv_lines > 0)          \* line 183-190
            /\ harvests' = harvests + 1
            /\ result_preview' = HarvestPreview(h)
            /\ harvestIn' = h
            /\ harvestDetail' = [listed |-> folders,
                                 latest |-> IF folders # {} THEN Latest(folders) ELSE 0,
                                 csv_lines |-> csv_lines,
                                 preview_lines |-> PreviewLines(csv_lines)]
       ELSE /\ h = NoHarvest /\ folders = {} /\ csv_lines = 0
            /\ UNCHANGED <<harvests, result_preview, harvestIn, harvestDetail>>
    /\ pc' = "notify"
    /\ UNCHANGED <<event, glue_state, state, poll_count, clock, reads, lastReadAt,
                   nSleeps, progressLog, finalLog>>

\* poller.py:208-258: the final result event is posted when reinvoke is set
NotifyFinal(ack) ==
    /\ pc = "notify"
    /\ IF event.reinvoke
       THEN finalLog' = Append(finalLog, [status |-> state, result_preview |-> result_preview,
                                          ack |-> ack])
       ELSE ack = "200" /\ UNCHANGED finalLog
    /\ pc' = "done"
    /\ UNCHANGED <<event, glue_state, state, poll_count, clock, reads, lastReadAt,
                   nSleeps, progressLog, result_preview, harvests, harvestIn, harvestDetail>>

\* the steps of handler()
PollerStep ==
    \/ \E e \in Events : PollerStart(e)
    \/ \E o \in ReadOutcomes : Poll(o)
    \/ \E ack \in Acks : Progress(ack)
    \/ TermCheck
    \/ TimeoutCheck
    \/ Sleep
    \/ \E h \in HarvestInputs \cup {NoHarvest} : Harvest(h, SomeFolders(h), SomeCsvLines(h))
    \/ \E ack \in Acks : NotifyFinal(ack)

NextPoller ==
    \/ \E e \in Events : PollerStart(e) /\ UNCHANGED <<cacheVars, taskVars, sendVars, regVars, chatVars, mcpVars>>
    \/ \E o \in ReadOutcomes : Poll(o) /\ UNCHANGED <<cacheVars, taskVars, sendVars, regVars, chatVars, mcpVars>>
    \/ \E ack \in Acks : Progress(ack) /\ UNCHANGED <<cacheVars, taskVars, sendVars, regVars, chatVars, mcpVars>>
    \/ TermCheck /\ UNCHANGED <<cacheVars, taskVars, sendVars, regVars, chatVars, mcpVars>>
    \/ TimeoutCheck /\ UNCHANGED <<cacheVars, taskVars, sendVars, regVars, chatVars, mcpVars>>
    \/ Sleep /\ UNCHANGED <<cacheVars, taskVars, sendVars, regVars, chatVars, mcpVars>>
    \/ \E h \in HarvestInputs \cup {NoHarvest} :
            Harvest(h, SomeFolders(h), SomeCsvLines(h))
                /\ UNCHANGED <<cacheVars, taskVars, sendVars, regVars, chatVars, mcpVars>>
    \/ \E ack \in Acks : NotifyFinal(ack) /\ UNCHANGED <<cacheVars, taskVars, sendVars, regVars, chatVars, mcpVars>>
    \/ \E s \in RunStates : GlueFinish(s) /\ UNCHANGED <<cacheVars, taskVars, sendVars, regVars, chatVars, mcpVars>>

(***************************************************************************)
(* Notification senders: app.py:85-114 (web_app.py:111-139), agent.py:65-93, *)
(* app.py:319-350.                                                         *)
(***************************************************************************)
\* largest max_retries given to the retrying send
MaxRetries == 4

\* the three send functions
SendFunctions ==
    {"send_websocket_notification",            \* app.py:85, web_app.py:111
     "agent.send_websocket_notification",      \* agent.py:65
     "send_websocket_notification_with_retry"} \* app.py:319

\* app.py:323: for attempt in range(max_retries)
InRange_inclusive(a, n) == a <= n

InRange(a, n) == a < n

\* app.py:346: if attempt < max_retries - 1
SleepDue(a, n) == a < n - 1

\* app.py:347: time.sleep(2 ** attempt)
Backoff_linear(a) == a + 1

Backoff(a) == 2 ^ a

\* app.py:103, 337; agent.py:84: response.status_code == 200
IsSuccess(ack) == ack = "200"

SendInit ==
    /\ sfn = "none"
    /\ surl = "none"
    /\ max_retries = 0
    /\ attempt = 0
    /\ spc = "idle"
    /\ sret = "-"
    /\ attempts = <<>>
    /\ delays = <<>>

\* a send function is called with websocket_url of kind url; env is the kind of
\* WEB_APP_NOTIFY_URL, which agent.py:69-71 falls back to; n is max_retries.
\* app.py:87-95: without a URL the plain send returns False, for a localhost URL
\* it returns True, both before any request.
SendCall(fn, url, env, n) ==
    /\ spc = "idle"
    /\ sfn' = fn
    /\ attempt' = 0
    /\ UNCHANGED <<attempts, delays>>
    /\ IF fn = "send_websocket_notification"
       THEN /\ n = 1 /\ env = "none"
            /\ surl' = url
            /\ max_retries' = 1
            /\ IF url = "none" THEN spc' = "returned" /\ sret' = FALSE
               ELSE IF url = "localhost" THEN spc' = "returned" /\ sret' = TRUE
               ELSE spc' = "post" /\ sret' = "-"
       ELSE IF fn = "agent.send_websocket_notification"
       THEN /\ n = 1
            /\ surl' = IF url = "none" THEN env ELSE url
            /\ max_retries' = 1
            /\ spc' = "post" /\ sret' = "-"
       ELSE /\ env = "none"
            /\ surl' = url
            /\ max_retries' = n
            /\ IF InRange(0, n) THEN spc' = "post" /\ sret' = "-"
               ELSE spc' = "returned" /\ sret' = FALSE

\* the loop of app.py:323 moves on from iteration a
NextIteration(a) ==
    /\ attempt' = a + 1
    /\ IF sfn = "send_websocket_notification_with_retry" /\ InRange(a + 1, max_retries)
       THEN spc' = "post" /\ sret' = "-"
       ELSE spc' = "returned" /\ sret' = FALSE

\* one requests.post call (app.py:98, 327; agent.py:74) answered with ack; without
\* a URL requests.post raises (no scheme) before anything is transmitted
SendPost(ack) ==
    /\ spc = "post"
    /\ surl = "none" => ack = "exception"
    /\ attempts' = Append(attempts, ack)
    /\ IF IsSuccess(ack)
       THEN /\ spc' = "returned" /\ sret' = TRUE
            /\ UNCHANGED attempt
       ELSE IF sfn = "send_websocket_notification_with_retry" /\ SleepDue(attempt, max_retries)
       THEN /\ spc' = "sleep" /\ sret' = "-"
            /\ UNCHANGED attempt
       ELSE NextIteration(attempt)
    /\ UNCHANGED <<sfn, surl, max_retries, delays>>

\* app.py:347: the backoff sleep, then the next iteration
SendSleep ==
    /\ spc = "sleep"
    /\ delays' = Append(delays, Backoff(attempt))
    /\ NextIteration(attempt)
    /\ UNCHANGED <<sfn, surl, max_retries, attempts>>

NextSend ==
    \/ \E fn \in SendFunctions, url \in UrlKinds, env \in {"none", "remote"},
          n \in 0..MaxRetries :
            SendCall(fn, url, env, n) /\ UNCHANGED <<cacheVars, taskVars, pollerVars, regVars, chatVars, mcpVars>>
    \/ \E ack \in Acks : SendPost(ack) /\ UNCHANGED <<cacheVars, taskVars, pollerVars, regVars, chatVars, mcpVars>>
    \/ SendSleep /\ UNCHANGED <<cacheVars, taskVars, pollerVars, regVars, chatVars, mcpVars>>

(***************************************************************************)
(* Connection registry: web/websocket_handler.py (WebSocket Lambda) and    *)
(* web/app.py (ConnectionManager of the FastAPI app).                       *)
(***************************************************************************)
\* channel ids: connection ids of the API Gateway, session ids of /ws/{session_id}
Channels == {"A", "B"}

RegUsers == {"alice", "bob"}

\* web/app.py:186: connect() is called with the session id as username, so the
\* keys of user_sessions are usernames and session ids
IndexKeys == RegUsers \cup Channels

\* the two front ends; they share no state
Impls == {"lambda", "fastapi"}

\* websocket_handler.py:81, web/app.py:35, 199: index[username] = channel
Bind_keep_first(index, u, c) == IF u \in DOMAIN index THEN index ELSE DictSet(index, u, c)

Bind(index, u, c) == DictSet(index, u, c)

NoSend == [user |-> "-", channel |-> "-", outcome |-> "-", ret |-> FALSE]

\* what a transmission on a registered channel meets: delivered, or the channel
\* rejects it (closed peer: GoneException, send_text raising)
SendOutcomes == {"ok", "rejected"}

RegInit ==
    /\ reg_impl = "none"
    /\ connections = EmptyDict
    /\ user_connections = EmptyDict
    /\ active_connections = EmptyDict
    /\ user_sessions = EmptyDict
    /\ lastBind = [k \in IndexKeys |-> "-"]
    /\ lastSend = NoSend
    /\ authed = {}

\* the front end is started: the Lambda module is loaded (websocket_handler.py:16-17)
\* or the FastAPI app creates its manager (web/app.py:73)
StartFrontEnd(i) ==
    /\ reg_impl = "none"
    /\ reg_impl' = i
    /\ UNCHANGED <<connections, user_connections, active_connections, user_sessions,
                   lastBind, lastSend, authed>>

\* websocket_handler.py:42-50
handle_connect(c) ==
    /\ reg_impl = "lambda"
    /\ c \notin DOMAIN connections
    /\ connections' = DictSet(connections, c, "None")
    /\ lastSend' = NoSend
    /\ UNCHANGED <<reg_impl, user_connections, active_connections, user_sessions, lastBind>>
    /\ authed' = authed \ {c}

\* websocket_handler.py:52-65
handle_disconnect(c) ==
    /\ reg_impl = "lambda"
    /\ c \in DOMAIN connections
    /\ LET username == connections[c]
       IN  user_connections' = IF username # "None" /\ username \in DOMAIN user_connections
                               THEN DictDel(user_connections, username)
                               ELSE user_connections
    /\ connections' = DictDel(connections, c)
    /\ lastSend' = NoSend
    /\ UNCHANGED <<reg_impl, active_connections, user_sessions, lastBind>>
    /\ authed' = authed \ {c}

\* websocket_handler.py:67-98: an auth message with username u on connection c;
\* the registry is updated before the confirmation is posted
handle_message(c, u) ==
    /\ reg_impl = "lambda"
    /\ c \in DOMAIN connections
    /\ connections' = DictSet(connections, c, u)
    /\ user_connections' = Bind(user_connections, u, c)
    /\ lastBind' = [lastBind EXCEPT ![u] = c]
    /\ lastSend' = NoSend
    /\ UNCHANGED <<reg_impl, active_connections, user_sessions>>
    /\ authed' = authed \cup {c}

\* websocket_handler.py:100-133
send_notification_to_user(u, o) ==
    /\ reg_impl = "lambda"
    /\ IF u \notin DOMAIN user_connections
       THEN /\ o = "ok"
            /\ lastSend' = [user |-> u, channel |-> "-", outcome |-> "unknown", ret |-> FALSE]
            /\ UNCHANGED user_connections
       ELSE IF o = "ok"
       THEN /\ lastSend' = [user |-> u, channel |-> user_connections[u],
                            outcome |-> "ok", ret |-> TRUE]
            /\ UNCHANGED user_connections
       ELSE /\ lastSend' = [user |-> u, channel |-> user_connections[u],
                            outcome |-> "rejected", ret |-> FALSE]
            /\ user_connections' = DictDel(user_connections, u)
    /\ UNCHANGED <<reg_impl, connections, active_connections, user_sessions, lastBind>>
    /\ UNCHANGED authed

\* web/app.py:38-43, ConnectionManager.disconnect(session_id, username)
disconnect(active, sessions, session_id, username) ==
    [active |-> IF session_id \in DOMAIN active THEN DictDel(active, session_id) ELSE active,
     sessions |-> IF username # "None" /\ username \in DOMAIN sessions
                  THEN DictDel(sessions, username) ELSE sessions]

\* web/app.py:182-186 -> 32-36: a client opens /ws/{session_id}
WsConnect(sid) ==
    /\ reg_impl = "fastapi"
    /\ sid \notin DOMAIN active_connections
    /\ active_connections' = DictSet(active_connections, sid, "WebSocket")
    /\ user_sessions' = Bind(user_sessions, sid, sid)
    /\ lastBind' = [lastBind EXCEPT ![sid] = sid]
    /\ lastSend' = NoSend
    /\ UNCHANGED <<reg_impl, connections, user_connections>>
    /\ authed' = authed \ {sid}

\* web/app.py:190-200: an auth message with username u on the socket of sid
WsAuth(sid, u) ==
    /\ reg_impl = "fastapi"
    /\ sid \in DOMAIN active_connections
    /\ user_sessions' = Bind(user_sessions, u, sid)
    /\ lastBind' = [lastBind EXCEPT ![u] = sid]
    /\ lastSend' = NoSend
    /\ UNCHANGED <<reg_impl, connections, user_connections, active_connections>>
    /\ authed' = authed \cup {sid}

\* web/app.py:201-202: WebSocketDisconnect -> manager.disconnect(session_id)
WsDisconnect(sid) ==
    /\ reg_impl = "fastapi"
    /\ sid \in DOMAIN active_connections
    /\ LET d == disconnect(active_connections, user_sessions, sid, "None")
       IN  active_connections' = d.active /\ user_sessions' = d.sessions
    /\ lastSend' = NoSend
    /\ UNCHANGED <<reg_impl, connections, user_connections, lastBind>>
    /\ authed' = authed \ {sid}

\* web/app.py:45-58, ConnectionManager.send_to_user
send_to_user(u, o) ==
    /\ reg_impl = "fastapi"
    /\ IF u \notin DOMAIN user_sessions
       THEN /\ o = "ok"
            /\ lastSend' = [user |-> u, channel |-> "-", outcome |-> "unknown", ret |-> FALSE]
            /\ UNCHANGED <<active_connections, user_sessions>>
       ELSE IF user_sessions[u] \notin DOMAIN active_connections
       THEN /\ o = "rejected"
            /\ lastSend' = [user |-> u, channel |-> user_sessions[u],
                            outcome |-> "closed", ret |-> FALSE]
            /\ UNCHANGED <<active_connections, user_sessions>>
       ELSE IF o = "ok"
       THEN /\ lastSend' = [user |-> u, channel |-> user_sessions[u],
                            outcome |-> "ok", ret |-> TRUE]
            /\ UNCHANGED <<active_connections, user_sessions>>
       ELSE /\ lastSend' = [user |-> u, channel |-> user_sessions[u],
                            outcome |-> "rejected", ret |-> FALSE]
            /\ LET d == disconnect(active_connections, user_sessions, user_sessions[u], u)
               IN  active_connections' = d.active /\ user_sessions' = d.sessions
    /\ UNCHANGED <<reg_impl, connections, user_connections, lastBind>>
    /\ authed' = authed \cap DOMAIN active_connections'

NextRegistry ==
    \/ \E i \in Impls : StartFrontEnd(i) /\ UNCHANGED <<cacheVars, taskVars, pollerVars, sendVars, chatVars, mcpVars>>
    \/ \E c \in Channels : handle_connect(c) /\ UNCHANGED <<cacheVars, taskVars, pollerVars, sendVars, chatVars, mcpVars>>
    \/ \E c \in Channels : handle_disconnect(c) /\ UNCHANGED <<cacheVars, taskVars, pollerVars, sendVars, chatVars, mcpVars>>
    \/ \E c \in Channels, u \in RegUsers :
            handle_message(c, u) /\ UNCHANGED <<cacheVars, taskVars, pollerVars, sendVars, chatVars, mcpVars>>
    \/ \E u \in RegUsers, o \in SendOutcomes :
            send_notification_to_user(u, o) /\ UNCHANGED <<cacheVars, taskVars, pollerVars, sendVars, chatVars, mcpVars>>
    \/ \E sid \in Channels : WsConnect(sid) /\ UNCHANGED <<cacheVars, taskVars, pollerVars, sendVars, chatVars, mcpVars>>
    \/ \E sid \in Channels, u \in RegUsers :
            WsAuth(sid, u) /\ UNCHANGED <<cacheVars, taskVars, pollerVars, sendVars, chatVars, mcpVars>>
    \/ \E sid \in Channels : WsDisconnect(sid) /\ UNCHANGED <<cacheVars, taskVars, pollerVars, sendVars, chatVars, mcpVars>>
    \/ \E u \in IndexKeys, o \in SendOutcomes :
            send_to_user(u, o) /\ UNCHANGED <<cacheVars, taskVars, pollerVars, sendVars, chatVars, mcpVars>>

(***************************************************************************)
(* Notify endpoint and chat handler of the FastAPI app: web/app.py.        *)
(***************************************************************************)
ChatUsers == {"alice", "bob"}

\* the accepted notifications are numbered 1..MaxNotifies
MaxNotifies == 2

\* web/app.py:392
max_polls == 90

\* the chat message typed by the user: empty (a refresh) or a text
ChatMessages == {"", "text"}

\* what the agent call of 351-384 leads to: an error text is yielded, or the
\* answer is yielded, without or with a task_id
AgentAnswers == {"error", "text", "task"}

Range(seq) == {seq[i] : i \in DOMAIN seq}

\* the pending list of a user; a user without an entry has nothing pending
Pending(store, u) == DictGet(store, u, <<>>)

ChatInit ==
    /\ chat_history_store = EmptyDict
    /\ next_msg = 1
    /\ notify_status = "-"
    /\ cpc = "idle"
    /\ cuser = "-"
    /\ ctask = FALSE
    /\ cpolls = 0
    /\ citer = 0
    /\ history = <<>>
    /\ chat_out = "-"
    /\ yielded = <<>>
    /\ cleared = {}

\* web/app.py:205-281: POST /api/notify; a body without username or message is
\* answered 400, otherwise the message is appended to the user's pending list
\* and then sent over the user's socket, whose failure is only logged
notify_user(u, valid, o) ==
    /\ reg_impl = "fastapi"
    /\ next_msg <= MaxNotifies
    /\ IF ~valid
       THEN /\ o = "ok"
            /\ notify_status' = "400"
            /\ UNCHANGED <<chat_history_store, next_msg, regVars>>
       ELSE /\ chat_history_store' =
                   DictSet(chat_history_store, u, Append(Pending(chat_history_store, u), next_msg))
            /\ next_msg' = next_msg + 1
            /\ notify_status' = "200"
            /\ send_to_user(u, o)
    /\ UNCHANGED <<cpc, cuser, ctask, cpolls, citer, history, chat_out, yielded, cleared>>

\* web/app.py:283-384: a chat call from its start to its first yield (nothing
\* is awaited on the way: httpx.post is a blocking call)
ChatStart(u, message, cred, agent) ==
    /\ reg_impl = "fastapi"
    /\ cpc = "idle"
    /\ cuser' = u
    /\ cpolls' = 0
    /\ citer' = 0
    /\ UNCHANGED <<next_msg, notify_status>>
    /\ IF ~cred
       THEN \* 311-314
            /\ message = "" /\ agent = "error"
            /\ chat_out' = "expired"
            /\ cpc' = "idle"
            /\ history' = <<>>
            /\ ctask' = FALSE
            /\ UNCHANGED <<chat_history_store, yielded, cleared>>
       ELSE LET pending == Pending(chat_history_store, u)
                had == pending # <<>>
            IN  \* 317-330
                /\ history' = pending
                /\ cleared' = cleared \cup Range(pending)
                /\ chat_history_store' = IF had THEN DictSet(chat_history_store, u, <<>>)
                                                ELSE chat_history_store
                /\ IF had /\ message = ""
                   THEN \* 333-335
                        /\ agent = "error"
                        /\ chat_out' = "history"
                        /\ yielded' = yielded \o pending
                        /\ cpc' = "idle"
                        /\ ctask' = FALSE
                   ELSE \* 351-384
                        /\ UNCHANGED yielded
                        /\ chat_out' = IF agent = "error" THEN "error" ELSE "response"
                        /\ cpc' = IF agent = "error" THEN "idle" ELSE "responded"
                        /\ ctask' = (agent = "task")

\* web/app.py:386-396, 418-421: resumed after the yield of the answer; without a
\* task_id the call ends, with one it sleeps before its first poll
ChatResume ==
    /\ cpc = "responded"
    /\ cpc' = IF ctask THEN "sleeping" ELSE "idle"
    /\ UNCHANGED <<chat_history_store, next_msg, notify_status, cuser, ctask, cpolls, citer,
                   history, chat_out, yielded, cleared>>

\* web/app.py:394-408, 414-419: one poll after the sleep; with pending messages
\* the for loop starts and yields the first of them
ChatPoll ==
    /\ cpc = "sleeping"
    /\ cpolls' = cpolls + 1
    /\ LET pending == Pending(chat_history_store, cuser)
       IN  IF pending # <<>>
           THEN /\ citer' = 1
                /\ yielded' = Append(yielded, pending[1])
                /\ chat_out' = "pending"
                /\ cpc' = "yielding"
           ELSE /\ cpc' = IF cpolls + 1 < max_polls THEN "sleeping" ELSE "idle"
                /\ UNCHANGED <<citer, yielded, chat_out>>
    /\ UNCHANGED <<chat_history_store, next_msg, notify_status, cuser, ctask, history, cleared>>

\* web/app.py:406-413: resumed after a yield of the for loop, which iterates the
\* list object itself: a message appended meanwhile is iterated too; when the
\* list is exhausted it is replaced by an empty one and the polling stops
ChatNext ==
    /\ cpc = "yielding"
    /\ LET pending == Pending(chat_history_store, cuser)
       IN  IF citer < Len(pending)
           THEN /\ citer' = citer + 1
                /\ yielded' = Append(yielded, pending[citer + 1])
                /\ UNCHANGED <<chat_history_store, cleared, cpc>>
           ELSE /\ chat_history_store' = DictSet(chat_history_store, cuser, <<>>)
                /\ cleared' = cleared \cup Range(pending)
                /\ cpc' = "idle"
                /\ UNCHANGED <<citer, yielded>>
    /\ UNCHANGED <<next_msg, notify_status, cuser, ctask, cpolls, history, chat_out>>

NextChat ==
    \/ StartFrontEnd("fastapi") /\ UNCHANGED <<cacheVars, taskVars, pollerVars, sendVars, chatVars, mcpVars>>
    \/ WsConnect("A") /\ UNCHANGED <<cacheVars, taskVars, pollerVars, sendVars, chatVars, mcpVars>>
    \/ WsAuth("A", "alice") /\ UNCHANGED <<cacheVars, taskVars, pollerVars, sendVars, chatVars, mcpVars>>
    \/ \E u \in ChatUsers, valid \in BOOLEAN, o \in SendOutcomes :
            notify_user(u, valid, o) /\ UNCHANGED <<cacheVars, taskVars, pollerVars, sendVars, mcpVars>>
    \/ \E u \in ChatUsers, message \in ChatMessages, cred \in BOOLEAN, agent \in AgentAnswers :
            ChatStart(u, message, cred, agent)
            /\ UNCHANGED <<cacheVars, taskVars, pollerVars, sendVars, regVars, mcpVars>>
    \/ ChatResume /\ UNCHANGED <<cacheVars, taskVars, pollerVars, sendVars, regVars, mcpVars>>
    \/ ChatPoll /\ UNCHANGED <<cacheVars, taskVars, pollerVars, sendVars, regVars, mcpVars>>
    \/ ChatNext /\ UNCHANGED <<cacheVars, taskVars, pollerVars, sendVars, regVars, mcpVars>>

(***************************************************************************)
(* MCP tool sets of the agent service: mcp_client_manager.py.              *)
(***************************************************************************)
\* user ids of the callers
McpUsers == {"u1", "u2"}

\* the threads that call get_mcp_tools_for_user (one background thread per task)
McpThreads == 1..NumThreads

\* how many tools the server lists: none or some
ToolCounts == {0, 1}

\* a tool set: the user id in the token of the client that listed it, and its size
ToolSet(u, n) == [token |-> u, n |-> n]

\* the initial value None of the shared variables
NoneTools == ToolSet("None", 0)

\* the literal [] that the failure paths return
EmptyList == ToolSet("-", 0)

\* a thread that has not returned
NoReturn == ToolSet("?", 0)

\* bool() of a tool set: None and the empty list are false
Truthy(tools) == tools.n > 0

\* mcp_client_manager.py:26: `if _shared_mcp_client and _shared_mcp_tools`; the
\* test does not look at the user
SharedHit_own_user(client, tools, u) == client # "None" /\ Truthy(tools) /\ tools.token = u

SharedHit(client, tools, u) == client # "None" /\ Truthy(tools)

McpInit ==
    /\ shared_mcp_client = "None"
    /\ shared_mcp_tools = NoneTools
    /\ mcp_tools = EmptyDict
    /\ mcp_clients = EmptyDict
    /\ mpc = [t \in McpThreads |-> "idle"]
    /\ muser = [t \in McpThreads |-> "-"]
    /\ mret = [t \in McpThreads |-> NoReturn]
    /\ mseen = [t \in McpThreads |-> NoneTools]
    /\ mafter = [t \in McpThreads |-> NoneTools]
    /\ firstInit = NoneTools

\* mcp_client_manager.py:20-55: the call starts; a hit of the shared cache or of
\* the per-user cache returns at once, otherwise the token is encoded and the
\* client is created (an exception on the way returns [], 90-93)
McpCall(t, u, ok) ==
    /\ mpc[t] = "idle"
    /\ muser' = [muser EXCEPT ![t] = u]
    /\ mseen' = [mseen EXCEPT ![t] = shared_mcp_tools]
    /\ mafter' = [mafter EXCEPT ![t] = firstInit]
    /\ IF SharedHit(shared_mcp_client, shared_mcp_tools, u)
       THEN /\ ok
            /\ mret' = [mret EXCEPT ![t] = shared_mcp_tools]
            /\ mpc' = [mpc EXCEPT ![t] = "returned"]
       ELSE IF u \in DOMAIN mcp_tools /\ u \in DOMAIN mcp_clients
       THEN /\ ok
            /\ mret' = [mret EXCEPT ![t] = mcp_tools[u]]
            /\ mpc' = [mpc EXCEPT ![t] = "returned"]
       ELSE IF ok
       THEN /\ mret' = [mret EXCEPT ![t] = NoReturn]
            /\ mpc' = [mpc EXCEPT ![t] = "start"]
       ELSE /\ mret' = [mret EXCEPT ![t] = EmptyList]
            /\ mpc' = [mpc EXCEPT ![t] = "failed"]
    /\ UNCHANGED <<shared_mcp_client, shared_mcp_tools, mcp_tools, mcp_clients, firstInit>>

\* mcp_client_manager.py:57-65: mcp_client.start(); a failure returns []
McpStart(t, ok) ==
    /\ mpc[t] = "start"
    /\ IF ok
       THEN /\ mpc' = [mpc EXCEPT ![t] = "list"]
            /\ UNCHANGED mret
       ELSE /\ mpc' = [mpc EXCEPT ![t] = "failed"]
            /\ mret' = [mret EXCEPT ![t] = EmptyList]
    /\ UNCHANGED <<shared_mcp_client, shared_mcp_tools, mcp_tools, mcp_clients, muser,
                   mseen, mafter, firstInit>>

\* mcp_client_manager.py:67-88: list_tools_sync(); a failure returns [], a
\* success stores client and tools in both caches and returns the tools
McpList(t, ok, n) ==
    /\ mpc[t] = "list"
    /\ IF ok
       THEN /\ mcp_clients' = DictSet(mcp_clients, muser[t], muser[t])
            /\ mcp_tools' = DictSet(mcp_tools, muser[t], ToolSet(muser[t], n))
            /\ shared_mcp_client' = muser[t]
            /\ shared_mcp_tools' = ToolSet(muser[t], n)
            /\ firstInit' = IF firstInit = NoneTools THEN ToolSet(muser[t], n) ELSE firstInit
            /\ mret' = [mret EXCEPT ![t] = ToolSet(muser[t], n)]
            /\ mpc' = [mpc EXCEPT ![t] = "returned"]
       ELSE /\ n = 0
            /\ mpc' = [mpc EXCEPT ![t] = "failed"]
            /\ mret' = [mret EXCEPT ![t] = EmptyList]
            /\ UNCHANGED <<shared_mcp_client, shared_mcp_tools, mcp_tools, mcp_clients, firstInit>>
    /\ UNCHANGED <<muser, mseen, mafter>>

\* the caller has taken the value; the thread may call again
McpDone(t) ==
    /\ mpc[t] \in {"returned", "failed"}
    /\ mpc' = [mpc EXCEPT ![t] = "idle"]
    /\ UNCHANGED <<shared_mcp_client, shared_mcp_tools, mcp_tools, mcp_clients, muser, mret,
                   mseen, mafter, firstInit>>

NextMcp ==
    \/ \E t \in McpThreads, u \in McpUsers, ok \in BOOLEAN :
            McpCall(t, u, ok) /\ UNCHANGED <<cacheVars, taskVars, pollerVars, sendVars, regVars, chatVars>>
    \/ \E t \in McpThreads, ok \in BOOLEAN :
            McpStart(t, ok) /\ UNCHANGED <<cacheVars, taskVars, pollerVars, sendVars, regVars, chatVars>>
    \/ \E t \in McpThreads, ok \in BOOLEAN, n \in ToolCounts :
            McpList(t, ok, n) /\ UNCHANGED <<cacheVars, taskVars, pollerVars, sendVars, regVars, chatVars>>
    \/ \E t \in McpThreads :
            McpDone(t) /\ UNCHANGED <<cacheVars, taskVars, pollerVars, sendVars, regVars, chatVars>>

Init == CacheInit /\ TaskInit /\ PollerInit /\ SendInit /\ RegInit /\ ChatInit /\ McpInit

SpecMcp == Init /\ [][NextMcp]_vars

SpecChat == Init /\ [][NextChat]_vars

SpecRegistry == Init /\ [][NextRegistry]_vars

SpecSend == Init /\ [][NextSend]_vars

\* the background processing of a task together with the handling of glue
\* results, at a fixed time of day
NextDeliver ==
    \/ \E task \in OneTask, user \in Users, url \in UrlKinds, o \in StoreOutcomes :
            CreateTask(task, user, url, o) /\ UNCHANGED <<cacheVars, pollerVars, sendVars, regVars, chatVars, mcpVars>>
    \/ \E task \in OneTask : StartBackground(task) /\ UNCHANGED <<cacheVars, pollerVars, sendVars, regVars, chatVars, mcpVars>>
    \/ \E task \in OneTask, o \in StoreOutcomes :
            UpdateProcessing(task, o) /\ UNCHANGED <<cacheVars, pollerVars, sendVars, regVars, chatVars, mcpVars>>
    \/ \E task \in OneTask, raises \in BOOLEAN :
            PromptEnter(task, raises) /\ UNCHANGED <<cacheVars, pollerVars, sendVars, regVars, chatVars, mcpVars>>
    \/ \E task \in OneTask, o \in StoreOutcomes :
            AgentProgress(task, o) /\ UNCHANGED <<cacheVars, pollerVars, sendVars, regVars, chatVars, mcpVars>>
    \/ \E task \in OneTask : EngineRun(task) /\ UNCHANGED <<cacheVars, pollerVars, sendVars, regVars, chatVars, mcpVars>>
    \/ \E task \in OneTask : PromptFail(task) /\ UNCHANGED <<cacheVars, pollerVars, sendVars, regVars, chatVars, mcpVars>>
    \/ \E task \in OneTask, o \in StoreOutcomes :
            UpdateCompleted(task, o) /\ UNCHANGED <<cacheVars, pollerVars, sendVars, regVars, chatVars, mcpVars>>
    \/ \E task \in OneTask, o \in StoreOutcomes :
            UpdateFailed(task, o) /\ UNCHANGED <<cacheVars, pollerVars, sendVars, regVars, chatVars, mcpVars>>
    \/ \E task \in OneTask, ack \in Acks :
            Notify(task, ack) /\ UNCHANGED <<cacheVars, pollerVars, sendVars, regVars, chatVars, mcpVars>>
    \/ \E t \in Threads, u \in Usernames, r \in Results :
            GlueResultStore(t, u, r) /\ UNCHANGED <<taskVars, pollerVars, sendVars, regVars, chatVars, mcpVars>>
    \/ \E t \in Threads, sent \in BOOLEAN :
            GlueResultNotify(t, sent) /\ UNCHANGED <<taskVars, pollerVars, sendVars, regVars, chatVars, mcpVars>>

SpecDeliver == Init /\ [][NextDeliver]_vars

\* the task processing together with the status queries of the clients
NextQuery ==
    \/ NextTask
    \/ \E task \in OneTask, caller \in Callers, o \in StoreOutcomes :
            GetTaskStatus(task, caller, o) /\ UNCHANGED <<cacheVars, pollerVars, sendVars, regVars, chatVars, mcpVars>>

SpecQuery == Init /\ [][NextQuery]_vars

\* two requests accepted for asynchronous processing and their background
\* threads, interleaved; no websocket_url is given
NextTwoTasks ==
    \/ \E task \in TaskIds, user \in Users, o \in StoreOutcomes :
            CreateTask(task, user, "none", o) /\ UNCHANGED <<cacheVars, pollerVars, sendVars, regVars, chatVars, mcpVars>>
    \/ \E task \in TaskIds : StartBackground(task) /\ UNCHANGED <<cacheVars, pollerVars, sendVars, regVars, chatVars, mcpVars>>
    \/ \E task \in TaskIds, o \in StoreOutcomes :
            UpdateProcessing(task, o) /\ UNCHANGED <<cacheVars, pollerVars, sendVars, regVars, chatVars, mcpVars>>
    \/ \E task \in TaskIds, raises \in BOOLEAN :
            PromptEnter(task, raises) /\ UNCHANGED <<cacheVars, pollerVars, sendVars, regVars, chatVars, mcpVars>>
    \/ \E task \in TaskIds, o \in StoreOutcomes :
            AgentProgress(task, o) /\ UNCHANGED <<cacheVars, pollerVars, sendVars, regVars, chatVars, mcpVars>>
    \/ \E task \in TaskIds : EngineRun(task) /\ UNCHANGED <<cacheVars, pollerVars, sendVars, regVars, chatVars, mcpVars>>
    \/ \E task \in TaskIds : PromptFail(task) /\ UNCHANGED <<cacheVars, pollerVars, sendVars, regVars, chatVars, mcpVars>>
    \/ \E task \in TaskIds, o \in StoreOutcomes :
            UpdateCompleted(task, o) /\ UNCHANGED <<cacheVars, pollerVars, sendVars, regVars, chatVars, mcpVars>>
    \/ \E task \in TaskIds, o \in StoreOutcomes :
            UpdateFailed(task, o) /\ UNCHANGED <<cacheVars, pollerVars, sendVars, regVars, chatVars, mcpVars>>
    \/ \E task \in TaskIds :
            Notify(task, "200") /\ UNCHANGED <<cacheVars, pollerVars, sendVars, regVars, chatVars, mcpVars>>

SpecTwoTasks == Init /\ [][NextTwoTasks]_vars

\* the users whose glue_job_result events are followed
RedeliverUsers == {"alice", "Alice"}

\* one task processed while glue_job_result events arrive, the same event
\* possibly more than once, as time passes
NextRedeliver ==
    \/ Tick
    \/ \E task \in OneTask, user \in Users, o \in StoreOutcomes :
            CreateTask(task, user, "none", o) /\ UNCHANGED <<cacheVars, pollerVars, sendVars, regVars, chatVars, mcpVars>>
    \/ \E task \in OneTask : StartBackground(task) /\ UNCHANGED <<cacheVars, pollerVars, sendVars, regVars, chatVars, mcpVars>>
    \/ \E task \in OneTask, o \in StoreOutcomes :
            UpdateProcessing(task, o) /\ UNCHANGED <<cacheVars, pollerVars, sendVars, regVars, chatVars, mcpVars>>
    \/ \E task \in OneTask, raises \in BOOLEAN :
            PromptEnter(task, raises) /\ UNCHANGED <<cacheVars, pollerVars, sendVars, regVars, chatVars, mcpVars>>
    \/ \E task \in OneTask, o \in StoreOutcomes :
            AgentProgress(task, o) /\ UNCHANGED <<cacheVars, pollerVars, sendVars, regVars, chatVars, mcpVars>>
    \/ \E task \in OneTask : EngineRun(task) /\ UNCHANGED <<cacheVars, pollerVars, sendVars, regVars, chatVars, mcpVars>>
    \/ \E task \in OneTask : PromptFail(task) /\ UNCHANGED <<cacheVars, pollerVars, sendVars, regVars, chatVars, mcpVars>>
    \/ \E task \in OneTask, o \in StoreOutcomes :
            UpdateCompleted(task, o) /\ UNCHANGED <<cacheVars, pollerVars, sendVars, regVars, chatVars, mcpVars>>
    \/ \E task \in OneTask, o \in StoreOutcomes :
            UpdateFailed(task, o) /\ UNCHANGED <<cacheVars, pollerVars, sendVars, regVars, chatVars, mcpVars>>
    \/ \E task \in OneTask :
            Notify(task, "200") /\ UNCHANGED <<cacheVars, pollerVars, sendVars, regVars, chatVars, mcpVars>>
    \/ \E u \in RedeliverUsers, r \in Results :
            GlueResultStore(1, u, r) /\ UNCHANGED <<taskVars, pollerVars, sendVars, regVars, chatVars, mcpVars>>
    \/ GlueResultNotify(1, TRUE) /\ UNCHANGED <<taskVars, pollerVars, sendVars, regVars, chatVars, mcpVars>>

SpecRedeliver == Init /\ [][NextRedeliver]_vars

\* the classification of the requests that arrive
NextClassify ==
    \E entry \in EntryPoints, req \in Requests :
        Classify(entry, req) /\ UNCHANGED <<cacheVars, pollerVars, sendVars, regVars, chatVars, mcpVars>>

SpecClassify == Init /\ [][NextClassify]_vars

\* the handling of glue_job_result events by the agent service
NextGlueResult ==
    \/ Tick
    \/ \E t \in Threads, u \in Usernames, r \in Results :
            GlueResultStore(t, u, r) /\ UNCHANGED <<taskVars, pollerVars, sendVars, regVars, chatVars, mcpVars>>
    \/ \E t \in Threads, sent \in BOOLEAN :
            GlueResultNotify(t, sent) /\ UNCHANGED <<taskVars, pollerVars, sendVars, regVars, chatVars, mcpVars>>
    \/ \E t \in Threads, u \in Usernames, r \in Results :
            GlueResultNoChannel(t, u, r) /\ UNCHANGED <<taskVars, pollerVars, sendVars, regVars, chatVars, mcpVars>>
    \/ \E t \in Threads :
            GlueResultReturn(t) /\ UNCHANGED <<taskVars, pollerVars, sendVars, regVars, chatVars, mcpVars>>

SpecGlueResult == Init /\ [][NextGlueResult]_vars

SpecTask == Init /\ [][NextTask]_vars

SpecPoller == Init /\ [][NextPoller]_vars

\* a polling session with a valid event whose reads and posts succeed, over
\* every content of the artifact store
NextHarvest ==
    \/ \E r \in BOOLEAN :
            PollerStart([bucket |-> TRUE, ids |-> TRUE, reinvoke |-> r])
                /\ UNCHANGED <<cacheVars, taskVars, sendVars, regVars, chatVars, mcpVars>>
    \/ Poll("response") /\ UNCHANGED <<cacheVars, taskVars, sendVars, regVars, chatVars, mcpVars>>
    \/ Progress("200") /\ UNCHANGED <<cacheVars, taskVars, sendVars, regVars, chatVars, mcpVars>>
    \/ TermCheck /\ UNCHANGED <<cacheVars, taskVars, sendVars, regVars, chatVars, mcpVars>>
    \/ TimeoutCheck /\ UNCHANGED <<cacheVars, taskVars, sendVars, regVars, chatVars, mcpVars>>
    \/ Sleep /\ UNCHANGED <<cacheVars, taskVars, sendVars, regVars, chatVars, mcpVars>>
    \/ \E h \in HarvestInputs \cup {NoHarvest}, folders \in SUBSET FolderNames,
          csv_lines \in 0..MaxCsvLines :
            Harvest(h, folders, csv_lines) /\ UNCHANGED <<cacheVars, taskVars, sendVars, regVars, chatVars, mcpVars>>
    \/ NotifyFinal("200") /\ UNCHANGED <<cacheVars, taskVars, sendVars, regVars, chatVars, mcpVars>>
    \/ \E s \in RunStates : GlueFinish(s) /\ UNCHANGED <<cacheVars, taskVars, sendVars, regVars, chatVars, mcpVars>>

SpecHarvest == Init /\ [][NextHarvest]_vars

\* handler() is one sequential process that keeps running
SpecPollerFair == SpecPoller /\ WF_vars(PollerStep /\ UNCHANGED <<cacheVars, taskVars, sendVars, regVars, chatVars, mcpVars>>)

\* the request threads of the service run concurrently
NextCache ==
    \/ Tick
    \/ \E t \in Threads, u \in Usernames : GetCall(t, u) /\ UNCHANGED <<taskVars, pollerVars, sendVars, regVars, chatVars, mcpVars>>
    \/ \E t \in Threads : GetLookup(t) /\ UNCHANGED <<taskVars, pollerVars, sendVars, regVars, chatVars, mcpVars>>
    \/ \E t \in Threads : GetLoad(t) /\ UNCHANGED <<taskVars, pollerVars, sendVars, regVars, chatVars, mcpVars>>
    \/ \E t \in Threads : GetCheck(t) /\ UNCHANGED <<taskVars, pollerVars, sendVars, regVars, chatVars, mcpVars>>
    \/ \E t \in Threads : GetDel(t) /\ UNCHANGED <<taskVars, pollerVars, sendVars, regVars, chatVars, mcpVars>>
    \/ \E t \in Threads : GetFinish(t) /\ UNCHANGED <<taskVars, pollerVars, sendVars, regVars, chatVars, mcpVars>>
    \/ \E t \in Threads, u \in Usernames, r \in Results :
            CachePut(t, u, r) /\ UNCHANGED <<taskVars, pollerVars, sendVars, regVars, chatVars, mcpVars>>

SpecCache == Init /\ [][NextCache]_vars

\* no other request is inside a cache operation
Alone(t) == \A o \in Threads \ {t} : AtRest(o)

\* one request at a time: an operation starts only when no other is in progress
NextCacheSerial ==
    \/ Tick
    \/ \E t \in Threads, u \in Usernames : Alone(t) /\ GetCall(t, u) /\ UNCHANGED <<taskVars, pollerVars, sendVars, regVars, chatVars, mcpVars>>
    \/ \E t \in Threads : GetLookup(t) /\ UNCHANGED <<taskVars, pollerVars, sendVars, regVars, chatVars, mcpVars>>
    \/ \E t \in Threads : GetLoad(t) /\ UNCHANGED <<taskVars, pollerVars, sendVars, regVars, chatVars, mcpVars>>
    \/ \E t \in Threads : GetCheck(t) /\ UNCHANGED <<taskVars, pollerVars, sendVars, regVars, chatVars, mcpVars>>
    \/ \E t \in Threads : GetDel(t) /\ UNCHANGED <<taskVars, pollerVars, sendVars, regVars, chatVars, mcpVars>>
    \/ \E t \in Threads : GetFinish(t) /\ UNCHANGED <<taskVars, pollerVars, sendVars, regVars, chatVars, mcpVars>>
    \/ \E t \in Threads, u \in Usernames, r \in Results :
            Alone(t) /\ CachePut(t, u, r) /\ UNCHANGED <<taskVars, pollerVars, sendVars, regVars, chatVars, mcpVars>>

SpecCacheSerial == Init /\ [][NextCacheSerial]_vars

\* get_cached_job_results and the store of prompt(), one request at a time, on
\* every cache content
InitEntries == CacheInitEntries /\ TaskInit /\ PollerInit /\ SendInit /\ RegInit /\ ChatInit /\ McpInit

SpecCacheEntries == InitEntries /\ [][NextCacheSerial]_vars

(***************************************************************************)
(* Claims about the result cache.                                          *)
(***************************************************************************)
TTLSeconds == CACHE_TTL_HOURS * 3600

\* the thread's get returns in this step
GetReturns(t) == tpc[t] \in {"get_lookup", "get_check", "get_del"} /\ tpc'[t] = "returned"

\* C1: with one request at a time, every return of get_cached_job_results for a
\* user key yields the cached result when the age of the latest stored entry
\* (utcnow() of the expiry check - completion_time) does not exceed the TTL, and
\* otherwise yields "" with the entry removed from the cache; so after the first
\* expired read every later get is a miss until a new put for that key.
C1_GetHonoursTTL ==
    [][\A t \in Threads :
        GetReturns(t) =>
            LET k == lower(tuser'[t])
                fresh == /\ k \in DOMAIN lastPut'
                         /\ now' - fromisoformat(lastPut'[k].completion_time)
                                <= TTLSeconds
            IN  /\ tret'[t] = IF fresh THEN FormatCached(lastPut'[k]) ELSE EmptyStr
                /\ ~fresh => k \notin DOMAIN completed_jobs_cache'
                /\ fresh => completed_jobs_cache'[k] = lastPut'[k]]_vars

\* C1 witness: a get made after the TTL of the stored entry had passed has
\* returned "" and the entry is gone from the cache.
C1_Witness ==
    \E t \in Threads :
        /\ tpc[t] = "returned"
        /\ tret[t] = EmptyStr
        /\ lower(tuser[t]) \in DOMAIN lastPut
        /\ now - fromisoformat(lastPut[lower(tuser[t])].completion_time) > TTLSeconds
        /\ lower(tuser[t]) \notin DOMAIN completed_jobs_cache

\* C2 (as claimed): a result stored for a key is never lost while it is within
\* its TTL: whenever the latest put for key k is not older than the TTL, the
\* cache holds exactly that entry under k, also when the put ran between another
\* request's expiry check and its delete.
C2_LateWriteSurvives ==
    \A k \in DOMAIN lastPut :
        (now - fromisoformat(lastPut[k].completion_time) <= TTLSeconds)
            => (k \in DOMAIN completed_jobs_cache /\ completed_jobs_cache[k] = lastPut[k])

C4_StoredBeforeNotified ==
    \A task \in TaskIds :
        Len(notifications[task]) > 0
            => (task \in DOMAIN task_store /\ task_store[task].status \in TerminalStatus)

(***************************************************************************)
(* Claims about the poller.                                                *)
(***************************************************************************)
TerminalRunStates == {"SUCCEEDED", "FAILED", "STOPPED", "TIMEOUT"}

InLoop == pc \in {"poll", "progress", "term_check", "timeout_check", "sleep"}
AfterLoop == pc \in {"harvest", "notify", "done"}

\* the poller has observed a terminal external state or was forced to TIMEOUT
TerminalSeen == pc # "start" /\ state \in TerminalRunStates

\* C5 (as claimed): once the poller has observed a terminal external state or
\* was forced to TIMEOUT, no further external-state read, no sleep and no
\* progress event occurs in the session.
C5_NothingAfterTerminal ==
    [][TerminalSeen => /\ reads' = reads
                       /\ nSleeps' = nSleeps
                       /\ progressLog' = progressLog]_vars

\* C5 (amended): once the poller has observed a terminal external state or was
\* forced to TIMEOUT, the loop is left and never re-entered: no further read of
\* the external state and no sleep occurs; the only progress event that may
\* still follow is the one of the observing poll itself (its poll count being a
\* multiple of 3), emitted before the terminal check of that poll.
C5_LoopExitsOnTerminal ==
    [][TerminalSeen =>
          /\ reads' = reads
          /\ nSleeps' = nSleeps
          /\ poll_count' = poll_count
          /\ pc' \notin {"start", "poll", "timeout_check", "sleep"}
          /\ pc' = "term_check" => pc \in {"term_check", "progress"}
          /\ pc' = "progress" => pc = "progress"
          /\ progressLog' # progressLog =>
                /\ pc = "progress" /\ pc' = "term_check"
                /\ Len(progressLog') = Len(progressLog) + 1
                /\ progressLog'[Len(progressLog')].poll = poll_count
                /\ poll_count % 3 = 0
                /\ reads[Len(reads)] = state]_vars

\* C5 witness: a session that read SUCCEEDED at its 6th poll, emitted the
\* progress event of that poll and has left the loop.
C5_Witness ==
    /\ pc = "done" /\ state = "SUCCEEDED" /\ poll_count = 6
    /\ Len(progressLog) = 2 /\ progressLog[2].status = "SUCCEEDED"

\* C6: with the external run state permanently RUNNING (every read answered,
\* with RUNNING), the session ends: it reaches the end of handler() with state
\* TIMEOUT, having observed no terminal external state.
C6_TimesOutWhenAlwaysRunning ==
    <>( \/ glue_state # "RUNNING"
        \/ pc \in {"error", "crashed"}
        \/ \E i \in 1..Len(reads) : reads[i] # "RUNNING"
        \/ /\ pc = "done" /\ state = "TIMEOUT"
           /\ clock > MAX_POLL_HOURS * 3600
           /\ \A i \in 1..Len(reads) : reads[i] = "RUNNING" )

\* C6 witness: a finished session that was forced to TIMEOUT after reading
\* RUNNING at every poll.
C6_Witness ==
    /\ pc = "done" /\ state = "TIMEOUT" /\ glue_state = "RUNNING"
    /\ Len(reads) > 0
    /\ \A i \in 1..Len(reads) : reads[i] = "RUNNING"

\* C7 (as claimed): a session whose latest poll was made after the ceiling had
\* passed ends with state TIMEOUT, whatever that poll read.
C7_TimeoutRegardless ==
    (AfterLoop /\ lastReadAt > MAX_POLL_HOURS * 3600) => state = "TIMEOUT"

\* C7 (amended): a session whose latest poll was made after the ceiling had
\* passed ends with state TIMEOUT unless that poll read a terminal external
\* state, and then it ends with the state read (a RUNNING answer or a service
\* error at that poll is overridden by TIMEOUT; a terminal answer is not).
C7_TimeoutUnlessTerminalRead ==
    (AfterLoop /\ lastReadAt > MAX_POLL_HOURS * 3600) =>
        state = IF reads[Len(reads)] \in TerminalRunStates
                THEN reads[Len(reads)] ELSE "TIMEOUT"

\* C7 witness: after the ceiling a poll read RUNNING and the session ended TIMEOUT.
C7_Witness ==
    /\ pc = "done" /\ lastReadAt > MAX_POLL_HOURS * 3600
    /\ reads[Len(reads)] = "RUNNING" /\ state = "TIMEOUT"
    /\ glue_state = "SUCCEEDED"

\* C8 (as claimed): after a failed read of the external state, of whatever kind,
\* polling goes on with the next cycle or ends through the ceiling with TIMEOUT.
C8_ReadFailureIsNoOp ==
    (Len(reads) > 0 /\ reads[Len(reads)] \in {"ClientError", "ConnectionError"})
        => \/ pc \in {"timeout_check", "sleep"}
           \/ AfterLoop /\ state = "TIMEOUT"

\* C9: with notification enabled a progress event is emitted at exactly the
\* polls whose count is a multiple of 3 (none otherwise); for the reads
\* RUNNING, RUNNING, RUNNING, SUCCEEDED exactly one progress event, that of
\* poll 3, precedes the final event, and the loop is left at poll 4 after 3 waits.
C9_ProgressEveryThirdPoll ==
    /\ \A i \in 1..Len(progressLog) : progressLog[i].poll = 3 * i
    /\ Len(progressLog) =
          IF event.reinvoke /\ pc # "start"
          THEN (IF pc = "progress" THEN (poll_count \div 3) - 1 ELSE poll_count \div 3)
          ELSE 0
    /\ (AfterLoop /\ event.reinvoke
          /\ reads = <<"RUNNING", "RUNNING", "RUNNING", "SUCCEEDED">>)
        => /\ Len(progressLog) = 1
           /\ progressLog[1].poll = 3 /\ progressLog[1].status = "RUNNING"
           /\ nSleeps = 3 /\ poll_count = 4 /\ state = "SUCCEEDED"
           /\ Len(finalLog) = IF pc = "done" THEN 1 ELSE 0

\* C9 witness: the scripted session has finished.
C9_Witness ==
    /\ pc = "done" /\ event.reinvoke
    /\ reads = <<"RUNNING", "RUNNING", "RUNNING", "SUCCEEDED">>
    /\ Len(finalLog) = 1

\* C10: posting a progress event changes nothing of the poller but its position,
\* which moves on to the terminal check, whatever the answer of the post (200,
\* another status, an exception): state, poll count, clock and the reads are
\* the same as after a successful delivery.
C10_ProgressIsBestEffort ==
    [][progressLog' # progressLog =>
          /\ pc = "progress" /\ pc' = "term_check"
          /\ state' = state /\ poll_count' = poll_count /\ clock' = clock
          /\ reads' = reads /\ nSleeps' = nSleeps /\ finalLog' = finalLog
          /\ \E ack \in Acks : progressLog' = Append(progressLog,
                [poll |-> poll_count, status |-> state, ack |-> ack])]_vars

\* C10 witness: a session whose first progress delivery failed emitted its second
\* progress event and ended SUCCEEDED.
C10_Witness ==
    /\ pc = "done" /\ state = "SUCCEEDED"
    /\ Len(progressLog) = 2
    /\ progressLog[1].ack \in {"500", "exception"}
    /\ Len(finalLog) = 1

\* the harvest block has been passed
AfterHarvest == pc \in {"notify", "done"}

\* C11: the result harvest runs at most once per session, not before the loop is
\* left, and only for the final state SUCCEEDED; for FAILED, STOPPED and TIMEOUT
\* the artifact store is not read and the preview stays None; the final result
\* event is built after the harvest step and carries its preview.
C11_HarvestOnceOnSuccess ==
    /\ harvests <= 1
    /\ (InLoop \/ pc \in {"start", "harvest", "error", "crashed"})
          => (harvests = 0 /\ harvestIn = NoHarvest /\ finalLog = <<>>)
    /\ harvests = 1 => (AfterHarvest /\ state = "SUCCEEDED" /\ harvestIn \in HarvestInputs)
    /\ (AfterHarvest /\ state \in {"FAILED", "STOPPED", "TIMEOUT"})
          => (harvests = 0 /\ harvestIn = NoHarvest /\ result_preview = "None")
    /\ (AfterHarvest /\ state = "SUCCEEDED") => harvests = 1
    /\ finalLog # <<>> => /\ pc = "done" /\ Len(finalLog) = 1
                          /\ finalLog[1].status = state
                          /\ finalLog[1].result_preview = result_preview

\* C11 witness: a SUCCEEDED session harvested the summary once and sent its
\* final event with that preview.
C11_Witness ==
    /\ pc = "done" /\ state = "SUCCEEDED" /\ harvests = 1
    /\ Len(finalLog) = 1 /\ finalLog[1].result_preview = "summary"

\* a harvest in which a step raised and no later step produced a preview
HarvestFailed ==
    \/ harvestIn.list = "error"
    \/ /\ harvestIn.summary \in {"get_error", "parse_error", "columns_error"}
       /\ harvestIn.csv # "ok"

\* C12 (as claimed): a harvest that failed (the listing, the summary read or
\* parse, the CSV listing or read raised and nothing after it produced a
\* preview) leaves the preview empty, and with notification enabled the final
\* event with the terminal status is still sent.
C12_FailedHarvestGivesEmptyPreview ==
    (AfterHarvest /\ HarvestFailed) =>
        /\ result_preview = "None"
        /\ (pc = "done" /\ event.reinvoke) =>
              (Len(finalLog) = 1 /\ finalLog[1].status = state)

(***************************************************************************)
(* Claims about the notification senders.                                  *)
(***************************************************************************)
Retrying == sfn = "send_websocket_notification_with_retry"

\* C13: the retrying send makes its attempts one after another, never more than
\* max_retries; every attempt before the latest one was not acknowledged; an
\* acknowledged attempt ends the call with True; the call returns False only
\* after exactly max_retries unacknowledged attempts; with answers fail, fail,
\* success and max_retries = 3 it returns True after exactly 3 attempts.
C13_RetryStopsAtFirstSuccess ==
    Retrying =>
        /\ Len(attempts) <= max_retries
        /\ \A i \in 1..(Len(attempts) - 1) : ~IsSuccess(attempts[i])
        /\ (Len(attempts) > 0 /\ IsSuccess(attempts[Len(attempts)]))
              => (spc = "returned" /\ sret = TRUE)
        /\ spc = "returned" =>
              /\ sret \in BOOLEAN
              /\ sret = TRUE => (Len(attempts) > 0 /\ IsSuccess(attempts[Len(attempts)]))
              /\ sret = FALSE => /\ Len(attempts) = max_retries
                                 /\ \A i \in 1..Len(attempts) : ~IsSuccess(attempts[i])
        /\ spc # "returned" => Len(attempts) < max_retries
        /\ (max_retries = 3 /\ Len(attempts) = 3 /\ IsSuccess(attempts[3]))
              => (spc = "returned" /\ sret = TRUE)

\* C13 witness: max_retries = 3, the channel failed twice and then acknowledged;
\* the call has returned True.
C13_Witness ==
    /\ Retrying /\ max_retries = 3 /\ spc = "returned" /\ sret = TRUE
    /\ attempts = <<"500", "exception", "200">>

\* C14: in the retrying send the k-th sleep, made between attempt k and attempt
\* k+1, lasts 2^(k-1) seconds (1, 2, 4, ...); there is one sleep between any two
\* consecutive attempts and none after an acknowledged attempt or after the last
\* attempt; the plain sends never sleep.
C14_BackoffDoubles ==
    /\ \A k \in 1..Len(delays) : delays[k] = 2 ^ (k - 1)
    /\ \A k \in 2..Len(delays) : delays[k] = 2 * delays[k - 1]
    /\ Len(delays) = IF spc = "post" THEN Len(attempts)
                     ELSE IF Len(attempts) = 0 THEN 0 ELSE Len(attempts) - 1
    /\ ~Retrying => delays = <<>>

\* C14 witness: four unacknowledged attempts with the sleeps 1, 2, 4 between
\* them and none after the last.
C14_Witness ==
    /\ Retrying /\ max_retries = 4 /\ spc = "returned" /\ sret = FALSE
    /\ Len(attempts) = 4 /\ delays = <<1, 2, 4>>

\* C15 (as claimed): whichever send function was called with whichever URL, it
\* returns True only if a request was made and the latest one was answered 200.
C15_SuccessMeansAcknowledged ==
    (spc = "returned" /\ sret = TRUE)
        => (Len(attempts) > 0 /\ IsSuccess(attempts[Len(attempts)]))

\* C17 (as claimed): a send called without any channel endpoint returns False
\* having made no attempt.
C17_NoChannelNoAttempt ==
    (spc = "returned" /\ surl = "none") => (sret = FALSE /\ attempts = <<>>)

\* C16: the send that follows a terminal write or a cache insertion changes
\* neither the task record nor the cache, whatever it returns, so in particular
\* when it fails after all its attempts; the caller then ends (the background
\* processing is done, prompt() returns) and neither writes the store again nor
\* sends again nor goes back to the processing.
C16_FailedSendLeavesStateAlone ==
    [][/\ \A task \in TaskIds :
            /\ (bpc[task] \in {"notify_ok", "notify_err"} /\ bpc'[task] # bpc[task])
                  => /\ bpc'[task] = "bg_done"
                     /\ task_store' = task_store
                     /\ completed_jobs_cache' = completed_jobs_cache
            /\ bpc[task] = "bg_done"
                  => /\ bpc'[task] = "bg_done"
                     /\ task_store' = task_store
                     /\ notifications'[task] = notifications[task]
       /\ \A t \in Threads :
            (tpc[t] = "glue_notify" /\ tpc'[t] # "glue_notify")
                  => /\ tpc'[t] = "idle"
                     /\ completed_jobs_cache' = completed_jobs_cache
                     /\ lastPut' = lastPut
                     /\ task_store' = task_store]_vars

\* C16 witness: the notification of a COMPLETED task met a transport error, the
\* processing is done with the record still COMPLETED, and a glue result was
\* cached and its request has returned.
C16_Witness ==
    /\ bpc["task-1"] = "bg_done"
    /\ task_store["task-1"].status = "COMPLETED"
    /\ Len(notifications["task-1"]) = 1
    /\ notifications["task-1"][1].ack = "exception"
    /\ "alice" \in DOMAIN completed_jobs_cache
    /\ \A t \in Threads : tpc[t] = "idle"

(***************************************************************************)
(* Claims about the connection registry.                                   *)
(***************************************************************************)
\* C18 (as claimed): a step that removes channel c from the channel map leaves
\* every username that is mapped to another channel mapped to that channel; so
\* with alice bound to A and then to B, disconnecting A leaves lookup(alice) = B.
C18_DisconnectKeepsNewerBinding ==
    [][\A c \in Channels :
          /\ (c \in DOMAIN connections /\ c \notin DOMAIN connections')
                => \A u \in DOMAIN user_connections :
                      user_connections[u] # c
                         => (u \in DOMAIN user_connections'
                               /\ user_connections'[u] = user_connections[u])
          /\ (c \in DOMAIN active_connections /\ c \notin DOMAIN active_connections')
                => \A u \in DOMAIN user_sessions :
                      user_sessions[u] # c
                         => (u \in DOMAIN user_sessions'
                               /\ user_sessions'[u] = user_sessions[u])]_vars

\* C19: the username index is a mapping (one channel per username at most); a
\* username found in it is mapped to the channel of its most recent binding,
\* never to an earlier one; and every binding of a username to a channel makes
\* the lookup of that username return that channel.
C19_LatestBindingWins ==
    /\ [](/\ \A u \in DOMAIN user_connections : user_connections[u] = lastBind[u]
          /\ \A u \in DOMAIN user_sessions : user_sessions[u] = lastBind[u])
    /\ [][\A u \in IndexKeys :
             lastBind'[u] # lastBind[u] =>
                IF reg_impl = "lambda"
                THEN u \in DOMAIN user_connections' /\ user_connections'[u] = lastBind'[u]
                ELSE u \in DOMAIN user_sessions' /\ user_sessions'[u] = lastBind'[u]]_vars

\* C19 witness: alice authenticated on connection A and later on connection B;
\* the lookup of alice gives B.
C19_Witness ==
    /\ reg_impl = "lambda"
    /\ "A" \in DOMAIN connections /\ connections["A"] = "alice"
    /\ "alice" \in DOMAIN user_connections /\ user_connections["alice"] = "B"
    /\ lastBind["alice"] = "B"

\* C20 (as claimed): after a send to a user whose registered channel was closed
\* or rejected the transmission, the send has returned False and the user is not
\* mapped to that channel any more, neither in the username index nor in the
\* channel map.
C20_StaleChannelIsCleanedUp ==
    lastSend.outcome \in {"rejected", "closed"} =>
        /\ lastSend.ret = FALSE
        /\ IF reg_impl = "lambda"
           THEN /\ ~(/\ lastSend.user \in DOMAIN user_connections
                     /\ user_connections[lastSend.user] = lastSend.channel)
                /\ ~(/\ lastSend.channel \in DOMAIN connections
                     /\ connections[lastSend.channel] = lastSend.user)
           ELSE /\ ~(/\ lastSend.user \in DOMAIN user_sessions
                     /\ user_sessions[lastSend.user] = lastSend.channel)
                /\ lastSend.channel \notin DOMAIN active_connections

\* C21 (as claimed): an open channel on which no auth message has arrived since
\* it was opened has no user: no key of the username index maps to it.
C21_NoUserBeforeAuth ==
    \A c \in Channels :
        /\ (c \in DOMAIN connections /\ c \notin authed)
              => \A u \in DOMAIN user_connections : user_connections[u] # c
        /\ (c \in DOMAIN active_connections /\ c \notin authed)
              => \A u \in DOMAIN user_sessions : user_sessions[u] # c

(***************************************************************************)
(* Further claims about the task store and the request handlers.           *)
(***************************************************************************)
\* C22: no step changes task_id, user_id, username, prompt or created_at of a
\* stored task record: whatever updates follow the create, these fields keep
\* the values create wrote (and the record stays in the store under its id).
C22_UpdateKeepsIdentity ==
    [][\A task \in DOMAIN task_store :
          /\ task \in DOMAIN task_store'
          /\ task_store'[task].task_id = task_store[task].task_id
          /\ task_store'[task].task_id = task
          /\ task_store'[task].user_id = task_store[task].user_id
          /\ task_store'[task].username = task_store[task].username
          /\ task_store'[task].prompt = task_store[task].prompt
          /\ task_store'[task].created_at = task_store[task].created_at]_vars

\* C22 witness: a record of bob that was updated to COMPLETED at a later time of
\* day than it was created.
C22_Witness ==
    /\ "task-1" \in DOMAIN task_store
    /\ task_store["task-1"].status = "COMPLETED"
    /\ task_store["task-1"].username = "bob"
    /\ task_store["task-1"].updated_at # <<>>
    /\ fromisoformat(task_store["task-1"].updated_at)
          > fromisoformat(task_store["task-1"].created_at)

\* C23 (as claimed): a failed update is surfaced to its caller: the background
\* processing goes on past an update only if the record then carries the status
\* and progress of that update.
C23_UpdateFailureSurfaces ==
    [][\A task \in TaskIds :
          /\ (bpc[task] = "bg_start" /\ bpc'[task] = "prompt_enter")
                => (task \in DOMAIN task_store' /\ task_store'[task].status = "PROCESSING")
          /\ (bpc[task] = "bg_complete" /\ bpc'[task] = "notify_ok")
                => (task \in DOMAIN task_store' /\ task_store'[task].status = "COMPLETED")
          /\ (bpc[task] = "failing" /\ bpc'[task] = "notify_err")
                => (task \in DOMAIN task_store' /\ task_store'[task].status = "FAILED")]_vars

\* C24: a request whose create failed in the store is aborted: it answered with
\* an error (no task id), holds no record, and stays aborted; background
\* processing, an answer with a task id and notifications exist only for tasks
\* whose record was created.
C24_FailedCreateAborts ==
    /\ [](\A task \in TaskIds :
            /\ bpc[task] = "aborted"
                  => /\ task \notin DOMAIN task_store
                     /\ http_response[task] = ErrorResponse(500)
                     /\ notifications[task] = <<>>
            /\ task \notin DOMAIN task_store
                  => /\ bpc[task] \in {"none", "aborted"}
                     /\ http_response[task].statusCode # 200
                     /\ notifications[task] = <<>>)
    /\ [][\A task \in TaskIds :
             bpc[task] = "aborted"
                => (bpc'[task] = "aborted" /\ task \notin DOMAIN task_store'
                      /\ http_response'[task] = http_response[task])]_vars

\* C24 witness: the store write of create failed and the request answered 500.
C24_Witness ==
    /\ bpc["task-1"] = "aborted"
    /\ http_response["task-1"].statusCode = 500
    /\ "task-1" \notin DOMAIN task_store

\* C25 (as claimed): when the service has processed a final job-result event
\* for a user, with or without a channel endpoint, the cache holds the result of
\* that event under the user's key.
C25_ResultCachedAfterEvent ==
    \A t \in Threads :
        tpc[t] = "glue_done" =>
            /\ lower(tuser[t]) \in DOMAIN completed_jobs_cache
            /\ completed_jobs_cache[lower(tuser[t])].results = tret[t]

\* two usernames that differ at most in letter case
SameUser(a, b) == a = b \/ {a, b} = {"alice", "Alice"}

\* C26: with one request at a time, a get for either spelling of the username
\* of the most recent put returns the result of that put while it is within the
\* TTL, whatever was stored under the key before (an entry of another spelling,
\* or an entry that expired and was purged).
C26_PutOverwrites ==
    [][\A t \in Threads :
        (/\ GetReturns(t)
         /\ latestPut.user # "none"
         /\ SameUser(latestPut.user, tuser'[t])
         /\ now' - fromisoformat(latestPut.job_data.completion_time) <= TTLSeconds)
        => tret'[t] = FormatCached(latestPut.job_data)]_vars

\* C26 witness: a put of r2 as "Alice" replaced the entry r1, and a get as
\* "alice" has returned r2.
C26_Witness ==
    \E t \in Threads :
        /\ tpc[t] = "returned"
        /\ tuser[t] = "alice"
        /\ latestPut.user = "Alice"
        /\ latestPut.over = "r1"
        /\ latestPut.job_data.results = "r2"
        /\ tret[t] = FormatCached(latestPut.job_data)

\* a job_data without a completion timestamp that can be used
Undated(job_data) ==
    \/ "completion_time" \notin DOMAIN job_data
    \/ job_data.completion_time = <<>>
    \/ ~IsIsoString(job_data.completion_time)

\* C27: with one request at a time, a get that found an entry without a usable
\* completion timestamp (missing, empty or unparseable) returns "" and leaves no
\* entry under the user's key.
C27_UndatedEntryIsExpired ==
    [][\A t \in Threads :
        (GetReturns(t) /\ Undated(tjob[t]))
        => /\ tret'[t] = EmptyStr
           /\ lower(tuser[t]) \notin DOMAIN completed_jobs_cache']_vars

\* C27 witness: a get has loaded a stored entry that has no completion_time at
\* all, returned "" and the entry is gone.
C27_Witness ==
    \E t \in Threads :
        /\ tpc[t] = "returned"
        /\ tjob[t].type = "completed_glue_job"
        /\ "completion_time" \notin DOMAIN tjob[t]
        /\ tret[t] = EmptyStr
        /\ lower(tuser[t]) \notin DOMAIN completed_jobs_cache

\* C28 (as claimed): every accepted asynchronous request has been answered
\* with the task id and status STARTED whatever the background processing does
\* afterwards, and once the background processing of a task has handled an
\* exception the stored record of that task has the terminal status FAILED.
C28_BackgroundFailureRecorded ==
    \A task \in TaskIds :
        /\ bpc[task] \notin {"none", "created", "aborted"}
                => http_response[task] = StartedResponse(task)
        /\ bpc[task] = "notify_err"
                => /\ task \in DOMAIN task_store
                   /\ task_store[task].status = "FAILED"

\* C29 (as claimed): at both entry points and whatever the other fields of the
\* request are, a text with a schema term is processed synchronously (also when
\* it has a data-processing term as well), and a text with a data-processing
\* term and no schema term is processed asynchronously.
C29_ClassifiedByKeywordSets ==
    request.entry # "none" =>
        /\ request.body.schema => processing = "sync"
        /\ (request.body.data_processing /\ ~request.body.schema) => processing = "async"

\* a status query is answered in this step
QueryAnswered == <<query, query_response>>' # <<query, query_response>>

\* C30 (as claimed): a status query answered without a store or token error
\* returns the stored record of the task when the task id was created, whoever
\* asks, and not-found when it was not.
C30_QueryReturnsRecord ==
    [][(QueryAnswered /\ query_response'.statusCode \notin {401, 500}) =>
        IF query'.task_id \in DOMAIN task_store
        THEN query_response' = [statusCode |-> 200, body |-> task_store[query'.task_id]]
        ELSE query_response'.statusCode = 404]_vars

\* C30 (amended): a status query answered without a store or token error
\* returns the record as create/update last wrote it when the caller is the
\* user who created the task, denies access (403, no record) to every other
\* user, and returns not-found for a task id that was never created.
C30_OwnerReadsRecord ==
    [][(QueryAnswered /\ query_response'.statusCode \notin {401, 500}) =>
        IF query'.task_id \notin DOMAIN task_store
        THEN query_response'.statusCode = 404
        ELSE IF task_store[query'.task_id].user_id = query'.caller
        THEN query_response' = [statusCode |-> 200, body |-> task_store[query'.task_id]]
        ELSE query_response' = ErrorResponse(403)]_vars

\* C30 witness: the owner has read the record after the background processing
\* wrote COMPLETED.
C30_Witness ==
    /\ query.task_id \in DOMAIN task_store
    /\ query.caller = task_store[query.task_id].user_id
    /\ query_response.statusCode = 200
    /\ query_response.body.status = "COMPLETED"
    /\ query_response.body = task_store[query.task_id]

\* C31: the progress events of a polling session are posted in increasing order
\* of the poll count they were made at, each at the count the poller then has at
\* most, and poll_count never decreases.
C31_ProgressInPollOrder ==
    /\ [](/\ \A i, j \in 1..Len(progressLog) :
                i < j => progressLog[i].poll <= progressLog[j].poll
          /\ \A i \in 1..Len(progressLog) : progressLog[i].poll <= poll_count)
    /\ [][poll_count' >= poll_count]_vars

\* C31 witness: two progress events were posted, at polls 3 and 6.
C31_Witness ==
    /\ Len(progressLog) = 2
    /\ progressLog[1].poll = 3
    /\ progressLog[2].poll = 6

\* the background thread of the task exists
ThreadStarted(task) == bpc[task] \notin {"none", "created", "aborted"}

\* the record of the task is written in this step
RecordWritten(task) ==
    \/ writeLog'[task] # writeLog[task]
    \/ (task \in DOMAIN task_store') # (task \in DOMAIN task_store)
    \/ task \in DOMAIN task_store /\ task_store'[task] # task_store[task]

\* C32: the record of a task id is written first by the request handler
\* (create), which has finished writing before the background thread of the
\* task is started, and from then on by that thread only; a step writes the
\* record of one task id only, the one whose request or thread takes the step.
C32_SingleWriterPerTask ==
    /\ [](\A task \in TaskIds :
            /\ writeLog[task] \in {<<>>, <<"request">>, <<"request", "background">>}
            /\ ThreadStarted(task) => writeLog[task] # <<>>
            /\ writeLog[task] = <<"request", "background">> => ThreadStarted(task))
    /\ [][\A task \in TaskIds :
            RecordWritten(task) =>
                /\ bpc[task] # "bg_done"
                /\ ThreadStarted(task) = (writeLog'[task] = <<"request", "background">>)
                /\ \A other \in TaskIds \ {task} :
                        /\ ~RecordWritten(other)
                        /\ bpc'[other] = bpc[other]]_vars

\* C32 witness: two tasks are being processed at the same time, each record
\* written by its request and then by its own thread.
C32_Witness ==
    \A task \in TaskIds :
        /\ bpc[task] = "prompt_progress"
        /\ writeLog[task] = <<"request", "background">>
        /\ task_store[task].task_id = task

\* the task store and the cache without the timestamps that a write sets
SansUpdatedAt(store) == [k \in DOMAIN store |-> [store[k] EXCEPT !.updated_at = <<>>]]
SansCompletionTime(cache) == [k \in DOMAIN cache |-> [cache[k] EXCEPT !.completion_time = <<>>]]

\* the statuses and messages an update may carry
UpdateStatuses == {"PROCESSING", "COMPLETED", "FAILED"}
UpdateMessages == {PromptMessages[i] : i \in 1..Len(PromptMessages)} \cup {"answer"}

\* the step stores a result in the cache
PutStep == latestPut' # latestPut

\* the step stores, for the same username, the result that the previous store
\* left in the cache
SamePutAgain ==
    /\ PutStep
    /\ latestPut'.user = latestPut.user
    /\ latestPut'.job_data.results = latestPut.job_data.results
    /\ lower(latestPut.user) \in DOMAIN completed_jobs_cache
    /\ completed_jobs_cache[lower(latestPut.user)] = latestPut.job_data

\* C33: in every reachable task store, an update (task id, status, message)
\* applied a second time gives the store that the first application gave, and a
\* cache store repeated for the same user and result leaves the cache as the
\* first left it, the timestamps updated_at and completion_time aside.
C33_IdempotentOverwrites ==
    /\ [](\A task \in DOMAIN task_store, status \in UpdateStatuses, message \in UpdateMessages :
            LET once == update_task_progress(task_store, task, status, message, "ok")
                twice == update_task_progress(once, task, status, message, "ok")
            IN  /\ SansUpdatedAt(twice) = SansUpdatedAt(once)
                /\ once[task].status = status /\ once[task].progress = message)
    /\ [][SamePutAgain =>
            SansCompletionTime(completed_jobs_cache')
                = SansCompletionTime(completed_jobs_cache)]_vars

\* C33 witness: a record was updated to COMPLETED, and the same result was
\* stored a second time for the same user at a later time.
C33_Witness ==
    /\ \E task \in DOMAIN task_store : task_store[task].status = "COMPLETED"
    /\ latestPut.user # "none"
    /\ latestPut.over = latestPut.job_data.results
    /\ fromisoformat(latestPut.job_data.completion_time) > 0
    /\ Cardinality(DOMAIN completed_jobs_cache) = 1

\* the summary object of the latest folder was absent or could not be read
SummaryUnreadable == harvestIn.summary \in {"get_error", "parse_error", "columns_error"}

SessionOver == pc \in {"done", "crashed"}

\* C35 (as claimed): a polling session that passed input validation with
\* notification enabled has, when it is over, posted exactly one final result
\* event; that event is posted after the loop and after every progress event,
\* and its status is the final state of the poller, which handler() returns.
C35_OneFinalEvent ==
    /\ Len(finalLog) <= 1
    /\ finalLog # <<>> => (pc = "done" /\ event.reinvoke /\ finalLog[1].status = state)
    /\ (InLoop \/ pc = "harvest") => finalLog = <<>>
    /\ (SessionOver /\ event.reinvoke) => Len(finalLog) = 1

\* the loop was left because the latest read returned a terminal state
LeftOnTerminalRead ==
    /\ AfterLoop
    /\ reads # <<>>
    /\ reads[Len(reads)] \in TerminalRunStates

\* the progress events that carry a terminal status
TerminalProgress == {i \in 1..Len(progressLog) : progressLog[i].status \in TerminalRunStates}

\* what C36 says of a session that left the loop on a terminal read
TerminalPollEvents ==
    /\ IF poll_count % 3 = 0
       THEN /\ TerminalProgress = {Len(progressLog)}
            /\ progressLog[Len(progressLog)].poll = poll_count
            /\ progressLog[Len(progressLog)].status = state
       ELSE TerminalProgress = {}
    /\ pc = "done" => (Len(finalLog) = 1 /\ finalLog[1].status = state)

\* C36 (as claimed): whenever the loop was left on a terminal read, a progress
\* event with the terminal status was posted iff the count of that poll is a
\* multiple of 3, and the final result event follows.
C36_TerminalPollEvents ==
    LeftOnTerminalRead => TerminalPollEvents

\* C36 (amended): the same, for sessions with notification enabled; without it
\* neither event is posted.
C36_TerminalPollEventsWhenEnabled ==
    /\ (LeftOnTerminalRead /\ event.reinvoke) => TerminalPollEvents
    /\ ~event.reinvoke => (progressLog = <<>> /\ finalLog = <<>>)
    /\ InLoop => TerminalProgress \subseteq {Len(progressLog)}

\* C36 witness: SUCCEEDED was read at poll 3; the progress event of poll 3
\* carries SUCCEEDED and the final event followed.
C36_Witness ==
    /\ pc = "done" /\ event.reinvoke /\ poll_count = 3
    /\ reads[Len(reads)] = "SUCCEEDED"
    /\ Len(progressLog) = 1 /\ progressLog[1].status = "SUCCEEDED"
    /\ Len(finalLog) = 1 /\ finalLog[1].status = "SUCCEEDED"

\* C37: every entry of the username index (user_connections of the Lambda,
\* user_sessions of the FastAPI manager) names a channel that is present in the
\* channel map (connections, active_connections).
C37_NoDanglingIndexEntry ==
    /\ \A u \in DOMAIN user_connections : user_connections[u] \in DOMAIN connections
    /\ \A u \in DOMAIN user_sessions : user_sessions[u] \in DOMAIN active_connections

\* how often a yield of the chat handler carried the pending message m
TimesYielded(m) == Cardinality({i \in DOMAIN yielded : yielded[i] = m})

\* C38: every pending message that the chat handler has removed from the
\* pending list was carried by exactly one of its yields, and no message is
\* yielded twice.
C38_ClearedOnlyAfterYield ==
    /\ \A m \in cleared : TimesYielded(m) = 1
    /\ \A m \in 1..MaxNotifies : TimesYielded(m) <= 1

\* agent.py:262-265: the text prompt() returns for an exception of its try block
FailureText == "Failed to process request: e"

\* app.py:177-179: the texts of the except clause of the background processing
EscapedTexts == {"Processing failed: KeyError", "Processing failed: transport"}

\* C39: once the background processing of a task whose prompt() returned the
\* failure text has passed its COMPLETED write, the record of the task says
\* COMPLETED with the failure text as progress; and a record says FAILED only
\* for a task whose background processing went through its except clause.
C39_EngineFailureCompletes ==
    \A task \in TaskIds :
        /\ (bpc[task] \in {"notify_ok", "bg_done"} /\ response_text[task] = FailureText)
                => /\ task \in DOMAIN task_store
                   /\ task_store[task].status = "COMPLETED"
                   /\ task_store[task].progress = FailureText
        /\ (task \in DOMAIN task_store /\ task_store[task].status = "FAILED")
                => /\ bpc[task] \in {"notify_err", "bg_done"}
                   /\ response_text[task] \in EscapedTexts

\* the call of thread t is over
McpOver(t) == mpc[t] \in {"returned", "failed"}

\* two returned values are the same tool set: equal size, and listed by the
\* same client unless both are empty lists
SameTools(a, b) == a.n = b.n /\ (a.n > 0 => a.token = b.token)

McpSharing ==
    /\ \A t \in McpThreads :
            /\ (McpOver(t) /\ Truthy(mseen[t])) => mret[t] = mseen[t]
            /\ mpc[t] = "failed" => mret[t] = EmptyList
    /\ shared_mcp_tools # NoneTools
            => /\ shared_mcp_client = shared_mcp_tools.token
               /\ shared_mcp_tools.token \in DOMAIN mcp_tools
               /\ mcp_tools[shared_mcp_tools.token] = shared_mcp_tools

\* a call that ends in a failure leaves both caches as they were
FailedInitNotCached ==
    (\E t \in McpThreads : mpc[t] # "failed" /\ mpc'[t] = "failed")
        => UNCHANGED <<shared_mcp_client, shared_mcp_tools, mcp_tools, mcp_clients>>

=============================================================================
